---- MODULE Spec2Model ----
(***************************************************************************)
(* occo.util.communication: the AMQP binding (mq.py) and the Response      *)
(* envelope (comm.py).  One MQRPCProducer instance shared by several       *)
(* caller threads, one MQEventDrivenConsumer on the request queue, and the *)
(* broker's two queues between them.                                       *)
(***************************************************************************)
EXTENDS Integers, Sequences, FiniteSets, TLC

VARIABLES
    lock,             \* MQRPCProducer.lock: NoThread or the thread that holds it
    correlation_id,   \* MQRPCProducer.correlation_id: NoToken or the armed token
    response,         \* MQRPCProducer.response: None or the body stored by the callback
    response_src,     \* history: properties of the delivery that filled the slot
    dropped,          \* history: correlation ids of the deliveries the callback ignored in this call
    default_routing_key, \* MQHandler.default_routing_key: None or a queue name
    uuid,             \* number of tokens uuid.uuid4() has handed out
    pc,               \* per thread: position inside push_message
    msg,              \* per thread: the msg argument of the current call
    armed,            \* history, per thread: the token the current call armed
    contended,        \* history, per thread: the call was issued while another call was in flight
    ops,              \* history, per thread: broker calls (declare, publish) of the current call
    result,           \* per thread: the value or exception the current call is about to end with
    ncalls,           \* number of push_message calls issued
    queue,            \* broker: the request queue (MQEventDrivenConsumer.queue)
    unacked,          \* broker: the messages delivered to the consumer and not acknowledged
    callback_queue,   \* broker: the producer's exclusive reply queue
    processor,        \* EventDrivenConsumer.processor: what the client's function does
    consumer,         \* the consumer thread: "running" or "dead"
    cancel_event,     \* MQEventDrivenConsumer.cancel_event: "absent", "clear" or "set"
    default_exchange, \* the consumer's MQHandler.default_exchange
    inbox,            \* deliveries sent on the consumer's channel and not yet handed to __callback
    cpc,              \* the consumer thread: position inside __call__, start_consuming, __callback
    cur,              \* the delivery __callback runs on, or ran on last
    cb_response,      \* __callback's local variable response
    trace,            \* history: what __callback has done for cur, in order
    published,        \* history: the basic_publish calls __callback has made for cur
    sc_result,        \* how start_consuming ended: returned or raised
    call_result,      \* how __call__ ended
    late_pumps,       \* history: pump cycles completed after cancel_event was set
    nredeliver,       \* number of re-deliveries of an unacknowledged message
    nstray,           \* number of foreign messages published to the reply queue
    chk,              \* Response.check() probe: the envelope checked and the outcome
    backends,         \* factory: per role class, its "backends" attribute (None: no such attribute)
    fcall,            \* factory: the last call made on the registry, its arguments and how it ended
    session,          \* MQHandler: the instance's scope, and its connection and channel attributes
    probe,            \* one call of a function or constructor on its own: its arguments and outcome
    proc,             \* GracefulProcess: the child process and the signals sent to it
    pumps             \* history: pump cycles start_consuming has completed

vars == <<lock, correlation_id, response, response_src, dropped, default_routing_key, uuid,
          pc, msg, armed, contended, ops, result, ncalls,
          queue, unacked, callback_queue, processor, consumer, nredeliver, nstray, chk,
          cancel_event, default_exchange, inbox, cpc, cur, cb_response, trace, published,
          sc_result, call_result, late_pumps, backends, fcall, session, probe, proc, pumps>>

producer_vars == <<lock, correlation_id, response, response_src, dropped, default_routing_key, uuid,
                   pc, msg, armed, contended, ops, result, ncalls>>

\* the consumer thread of the statement-by-statement model of __callback
thread_vars == <<cancel_event, default_exchange, inbox, cpc, cur, cb_response, trace, published,
                 sc_result, call_result, late_pumps>>

consumer_vars == <<unacked, processor, consumer, nredeliver, thread_vars>>

\* the backend registry of occo.util.factory
factory_vars == <<backends, fcall>>

\* what the communication classes leave alone
other_vars == <<factory_vars, session, probe, proc, pumps>>

\* what the registry leaves alone
comm_vars == <<producer_vars, queue, callback_queue, consumer_vars, nstray, chk, session, probe, proc, pumps>>

-----------------------------------------------------------------------------
(* Bounds of the model *)

MaxCalls == 2
MaxRedeliver == 1
MaxStray == 1
MaxCode == 650
MaxLatePumps == 2
MaxPumps == 2

Threads == {1, 2}
NoThread == 0
NoToken == 0
ForeignToken == 0 - 1

-----------------------------------------------------------------------------
(* Python values *)

None == [type |-> "None"]
Str(prefix, s) == [type |-> "str", prefix |-> prefix, s |-> s]
Unloadable == [type |-> "Unloadable"]

\* The callers send a different message in every call (the tests salt theirs
\* with a uuid): the k-th call sends Msg(k).
Texts == <<"ping", "hello", "third", "fourth">>
Msg(k) == Str("", Texts[k])
QueueNames == {Str("", "test")}
RE(m) == Str("RE: ", m.s)

ValueError(reason) == [type |-> "ValueError", reason |-> reason]
AttributeError == [type |-> "AttributeError"]
NotImplementedError == [type |-> "NotImplementedError"]
ConstructorError == [type |-> "ConstructorError"]
AMQPConnectionError == [type |-> "AMQPConnectionError"]
UnboundLocalError == [type |-> "UnboundLocalError"]
KeyboardInterrupt == [type |-> "KeyboardInterrupt"]
SystemExit == [type |-> "SystemExit"]

\* isinstance(e, Exception): KeyboardInterrupt and SystemExit derive from
\* BaseException only, so "except Exception" does not catch them.
IsException(e) == e.type \notin {"KeyboardInterrupt", "SystemExit"}

CommunicationError(cls, http_code, reason) ==
    [type |-> cls, http_code |-> http_code, reason |-> reason]
CriticalError(http_code, reason) == CommunicationError("CriticalError", http_code, reason)
TransientError(http_code, reason) == CommunicationError("TransientError", http_code, reason)

IsCommunicationError(e) == e.type \in {"CommunicationError", "CriticalError", "TransientError"}

Response(http_code, data, finalize) ==
    [type |-> "Response", http_code |-> http_code, data |-> data, finalize |-> finalize]
ExceptionResponse(http_code, data) ==
    [type |-> "ExceptionResponse", http_code |-> http_code, data |-> data, finalize |-> TRUE]

IsResponse(v) == v.type \in {"Response", "ExceptionResponse"}

\* How a statement ends: normally (with a value) or by raising.
Ok(v) == [kind |-> "return", value |-> v]
Raise(e) == [kind |-> "raise", exc |-> e]

NoResult == [kind |-> "none"]

-----------------------------------------------------------------------------
(* comm.py: the Response envelope *)

\* Response.check(): the outcome of the call, by status band.
check_band_off_by_one(self) ==
    IF self.type = "ExceptionResponse" THEN Raise(self.data)
    ELSE LET code == self.http_code IN
         IF code <= 199 THEN Raise(NotImplementedError)
         ELSE IF code <= 299 THEN Ok(None)
         ELSE IF code <= 399 THEN Raise(NotImplementedError)
         ELSE IF code <= 499 THEN Raise(CriticalError(code, self.data))
         ELSE IF code < 599 THEN Raise(TransientError(code, self.data))
         ELSE Raise(NotImplementedError)
check_no_transient(self) ==
    IF self.type = "ExceptionResponse" THEN Raise(self.data)
    ELSE LET code == self.http_code IN
         IF code <= 199 THEN Raise(NotImplementedError)
         ELSE IF code <= 299 THEN Ok(None)
         ELSE IF code <= 399 THEN Raise(NotImplementedError)
         ELSE IF code <= 599 THEN Raise(CriticalError(code, self.data))
         ELSE Raise(NotImplementedError)
\* an ExceptionResponse without a check() of its own: Response.check() applies
check_inherited(self) ==
    LET code == self.http_code IN
    IF code <= 199 THEN Raise(NotImplementedError)
    ELSE IF code <= 299 THEN Ok(None)
    ELSE IF code <= 399 THEN Raise(NotImplementedError)
    ELSE IF code <= 499 THEN Raise(CriticalError(code, self.data))
    ELSE IF code <= 599 THEN Raise(TransientError(code, self.data))
    ELSE Raise(NotImplementedError)
check(self) ==
    IF self.type = "ExceptionResponse" THEN Raise(self.data)
    ELSE LET code == self.http_code IN
         IF code <= 199 THEN Raise(NotImplementedError)
         ELSE IF code <= 299 THEN Ok(None)
         ELSE IF code <= 399 THEN Raise(NotImplementedError)
         ELSE IF code <= 499 THEN Raise(CriticalError(code, self.data))
         ELSE IF code <= 599 THEN Raise(TransientError(code, self.data))
         ELSE Raise(NotImplementedError)

-----------------------------------------------------------------------------
(* mq.py: YAMLChannel *)

\* yaml.dump(obj): a YAML document that represents obj.
serialize(obj) == [yaml |-> obj]

\* yaml.load can rebuild every object whose class the loading side can import.
Loadable(repr) ==
    /\ repr.yaml.type # "Unloadable"
    /\ IsResponse(repr.yaml) => repr.yaml.data.type # "Unloadable"

\* yaml.safe_load(repr): only the plain YAML types are constructed
deserialize_safe(repr) ==
    IF repr.yaml.type \in {"None", "str", "int", "list", "dict"}
    THEN Ok(repr.yaml) ELSE Raise(ConstructorError)

\* yaml.load(repr): the object the document represents, or a ConstructorError.
deserialize(repr) == IF Loadable(repr) THEN Ok(repr.yaml) ELSE Raise(ConstructorError)

-----------------------------------------------------------------------------
(* util/__init__.py and mq.py: MQHandler *)

\* isinstance(v, Exception)
isinstance_Exception(v) ==
    v.type \in {"ValueError", "AttributeError", "NotImplementedError", "ConstructorError",
                "AMQPConnectionError", "UnboundLocalError", "TypeError", "KeyError",
                "ConfigurationError", "CommunicationError", "CriticalError", "TransientError"}

\* bool(v): None and the empty string are false
truthy(v) == v # None /\ (v.type = "str" => v.s # "")

\* "a or b or c": the first element that is true, not the first that is not None
coalesce_truthy(args) ==
    LET set == {i \in 1..Len(args) : truthy(args[i])} IN
    LET res == IF set = {} THEN args[Len(args)]
               ELSE args[CHOOSE i \in set : \A j \in set : i <= j] IN
    IF isinstance_Exception(res) THEN Raise(res) ELSE Ok(res)

\* icoalesce: the first element that is not None, else the default; an exception
\* object is raised instead of returned.
coalesce(args) ==
    LET nonnull == {i \in 1..Len(args) : args[i] # None} IN
    LET res == IF nonnull = {} THEN None
               ELSE args[CHOOSE i \in nonnull : \A j \in nonnull : i <= j] IN
    IF isinstance_Exception(res) THEN Raise(res) ELSE Ok(res)

effective_exchange(override, default) ==
    coalesce(<<override, default, Str("", "")>>)

\* a routing key that falls back on a queue name of its own
effective_routing_key_hard_default(override, default) ==
    coalesce(<<override, default, Str("", "test")>>)

effective_routing_key(override, default) ==
    coalesce(<<override, default, ValueError(Str("", "publish_message: Routing key is mandatory"))>>)

-----------------------------------------------------------------------------
(* mq.py: MQRPCProducer *)

NoSrc == [correlation_id |-> NoToken, cause |-> [do |-> "none"]]

\* __reset: the two fields push_message and the callback share.
reset_keeps_response(slot) ==
    [slot EXCEPT !.correlation_id = NoToken]
reset(slot) ==
    [response |-> None, src |-> NoSrc, dropped |-> {}, correlation_id |-> NoToken]

\* __on_response: stores the body when the delivery's correlation id is the
\* instance's correlation id.
on_response_any(slot, props, body) ==
    [slot EXCEPT !.response = body, !.src = props]
on_response(slot, props, body) ==
    IF slot.correlation_id = props.correlation_id
        THEN [slot EXCEPT !.response = body, !.src = props]
        ELSE [slot EXCEPT !.dropped = @ \cup {props.correlation_id}]

\* connection.process_data_events(): the deliveries read from the socket are
\* handed to the registered callback one after the other.
RECURSIVE dispatch(_, _)
dispatch(slot, deliveries) ==
    IF deliveries = <<>> THEN slot
    ELSE dispatch(on_response(slot, Head(deliveries).props, Head(deliveries).body),
                  Tail(deliveries))

\* str(uuid.uuid4()): a token no earlier call of uuid4 has returned; n tokens
\* have been handed out so far.
uuid4_repeats(n) == 1
uuid4(n) == n + 1

\* The condition of the wait loop, "while self.response is None": the loop has
\* no other exit, no timeout and no counter.
response_is_None(r) == r = None

\* threading.Lock.acquire(): returns once the lock is free.
acquire_nonblocking(l) == TRUE
acquire(l) == l = NoThread

\* push_message, "Process response": deserialize, check(), return response.data.
process_response_no_check(body) ==
    LET r == deserialize(body) IN
    IF r.kind = "raise" THEN r
    ELSE IF ~IsResponse(r.value) THEN Raise(AttributeError)
    ELSE Ok(r.value.data)
process_response(body) ==
    LET r == deserialize(body) IN
    IF r.kind = "raise" THEN r
    ELSE IF ~IsResponse(r.value) THEN Raise(AttributeError)
    ELSE IF check(r.value).kind = "raise" THEN check(r.value)
    ELSE Ok(r.value.data)

-----------------------------------------------------------------------------
(* mq.py: MQEventDrivenConsumer *)

NoMsg == [type |-> "nomsg"]

\* __enter__: self.channel.basic_qos(prefetch_count=1).  The broker sends a
\* delivery on the channel only while fewer than prefetch_count deliveries of
\* the channel are unacknowledged.
prefetch_count == 1
basic_qos_unlimited(outstanding) == TRUE
basic_qos(outstanding) == Len(outstanding) < prefetch_count

Statuses == {200, 299, 400, 499, 500, 599}

\* The processor the consumer is constructed with: client code that returns a
\* Response, an ExceptionResponse, a raw value or None, or raises.
Processors ==
    [do : {"Response"}, code : Statuses, finalize : {TRUE}]
    \cup [do : {"Response"}, code : {200}, finalize : {FALSE}]
    \cup {[do |-> d] : d \in {"Unloadable", "raw", "None",
                              "raise CriticalError", "raise ValueError"}}
    \cup {[do |-> "ExceptionResponse", code |-> 403, exc |-> ValueError(None)]}

\* Processors that return ExceptionResponse(code, e), for a status code of
\* every band and outside the bands, and two exceptions.
ExceptionProcessors ==
    [do : {"ExceptionResponse"}, code : Statuses \cup {100, 650},
     exc : {ValueError(None), NotImplementedError}]

\* EventDrivenConsumer._call_processor: self.processor(data, *pargs, **pkwargs)
call_processor(p, data) ==
    CASE p.do = "Response" -> Ok(Response(p.code, RE(data), p.finalize))
      [] p.do = "Unloadable" -> Ok(Response(200, Unloadable, TRUE))
      [] p.do = "ExceptionResponse" -> Ok(ExceptionResponse(p.code, p.exc))
      [] p.do = "raw" -> Ok(RE(data))
      [] p.do = "None" -> Ok(None)
      [] p.do = "raise CriticalError" -> Raise(CriticalError(403, Str("", "x")))
      [] p.do = "raise ValueError" -> Raise(ValueError(Str("", "Test exception")))
      [] p.do = "raise SystemExit" -> Raise(SystemExit)

\* __reply_if_rpc: the reply published for a request that carries reply_to; the
\* publish may fail, which is logged and otherwise ignored.
reply_if_rpc(resp, props, pub_ok) ==
    IF props.reply_to # None /\ pub_ok
        THEN <<[body |-> serialize(resp),
                props |-> [correlation_id |-> props.correlation_id, cause |-> props.cause]]>>
        ELSE <<>>

\* The response __callback ends up with: the processor's return value, an
\* ExceptionResponse for a CommunicationError, a 500 Response for anything else
\* that was raised (a body that does not deserialize included).
\* (o is how the processor call ended, or would end, on the deserialized body)
callback_response_all_500(body, o) ==
    IF deserialize(body).kind = "raise" \/ o.kind = "raise"
        THEN Response(500, Str("", "Internal Server Error"), TRUE)
        ELSE o.value
callback_response(body, o) ==
    IF deserialize(body).kind = "raise" THEN Response(500, Str("", "Internal Server Error"), TRUE)
    ELSE IF o.kind = "raise" /\ IsCommunicationError(o.exc)
        THEN ExceptionResponse(o.exc.http_code, o.exc)
    ELSE IF o.kind = "raise" THEN Response(500, Str("", "Internal Server Error"), TRUE)
    ELSE o.value

\* __callback as a whole: the replies published, whether the message was
\* acknowledged, and whether the callback raised (the finally block reads
\* response.finalize of whatever the response is).
callback(m, pub_ok) ==
    LET o == call_processor(processor, deserialize(m.body).value) IN
    LET resp == callback_response(m.body, o) IN
    LET has_finalize == IsResponse(resp) IN
    [replies |-> reply_if_rpc(resp, [m.props EXCEPT !.cause = o], pub_ok),
     acked |-> resp = None \/ (has_finalize /\ resp.finalize),
     raised |-> resp # None /\ ~has_finalize]

-----------------------------------------------------------------------------
(* occo.util.factory: the backend registry *)

TypeError == [type |-> "TypeError"]
KeyError == [type |-> "KeyError"]
ConfigurationError(what) == [type |-> "ConfigurationError", what |-> what]

PyInt(n) == [type |-> "int", n |-> n]
Tuple(items) == [type |-> "tuple", items |-> items]
List(items) == [type |-> "list", items |-> items]
Class(name) == [type |-> "class", name |-> name]

\* A dict: a value for each key it may hold, NoKey where the key is not in it.
NoKey == [type |-> "nokey"]
Dict(items) == [type |-> "dict", items |-> items]
contains(d, k) == k \in DOMAIN d.items /\ d.items[k] # NoKey
get(d, k, default) == IF contains(d, k) THEN d.items[k] ELSE default
setitem(d, k, v) == [d EXCEPT !.items[k] = v]
pop(d, k) == [d EXCEPT !.items[k] = NoKey]

\* The keys of the configuration maps and keyword arguments of the model.
Keys == {"protocol", "args", "kwargs", "a", "host"}
EmptyDict == Dict([k \in Keys |-> NoKey])
keys(d) == {k \in DOMAIN d.items : d.items[k] # NoKey}

\* The abstract classes (roles) and the classes registered as their backends:
\* those of factory_tests.py and of communication.
TestFactory == Class("TestFactory")
TestFactoryImp == Class("TestFactoryImp")
AsynchronProducer == Class("AsynchronProducer")
MQAsynchronProducer == Class("MQAsynchronProducer")
Roles == {TestFactory, AsynchronProducer}
Implementations == {TestFactoryImp, MQAsynchronProducer}

\* The protocol identifiers backends are registered with.
ProtocolIds == {Str("", "test"), Str("", "amqp")}
NoBackends == Dict([id \in ProtocolIds |-> NoKey])

\* An instance: its class and what __init__ stored in it.
Object(cls, attrs) == [type |-> "object", cls |-> cls, attrs |-> attrs]

\* cls.__init__(obj, *args, **kwargs).  TestFactory.__init__(self, a=9) stores
\* a as x and is inherited by TestFactoryImp; MQHandler.__init__(**config)
\* needs the connection parameters (one key stands for them) and keeps the
\* configuration; AsynchronProducer has no __init__ of its own, and
\* object.__init__ takes no arguments.
init(cls, args, kwargs) ==
    IF cls \in {TestFactory, TestFactoryImp}
        THEN IF \/ Len(args) > 1
                \/ keys(kwargs) \ {"a"} # {}
                \/ (Len(args) = 1 /\ contains(kwargs, "a"))
                 THEN Raise(TypeError)
             ELSE Ok(Object(cls, IF Len(args) = 1 THEN args[1]
                                 ELSE get(kwargs, "a", PyInt(9))))
    ELSE IF cls = MQAsynchronProducer
        THEN IF args # <<>> THEN Raise(TypeError)
             ELSE IF ~contains(kwargs, "host") THEN Raise(ConfigurationError("host"))
             ELSE Ok(Object(cls, kwargs))
    ELSE IF args # <<>> \/ keys(kwargs) # {} THEN Raise(TypeError)
         ELSE Ok(Object(cls, None))

\* How a call on the registry ends: its outcome, and the classes object.__new__
\* was called on.
Ended(outcome, constructed) == [outcome |-> outcome, constructed |-> constructed]

\* The classes of the model a class derives from, nearest first: the backends
\* are subclasses of the role they implement (class TestFactoryImp(TestFactory),
\* class MQAsynchronProducer(MQHandler, comm.AsynchronProducer, YAMLChannel)).
bases(cls) ==
    IF cls = TestFactoryImp THEN <<TestFactory>>
    ELSE IF cls = MQAsynchronProducer THEN <<AsynchronProducer>>
    ELSE <<>>

\* The classes attribute lookup on cls goes through, in order.
mro(cls) == <<cls>> \o bases(cls)

\* bk[c] is the "backends" entry of the class c's own namespace (None: it has
\* none).  The class whose entry cls.backends evaluates to, or None.
backends_owner(bk, cls) ==
    LET found == {i \in DOMAIN mro(cls) : bk[mro(cls)[i]] # None} IN
    IF found = {} THEN None
    ELSE mro(cls)[CHOOSE i \in found : \A j \in found : i <= j]

\* hasattr(cls, 'backends')
hasattr_backends(bk, cls) == backends_owner(bk, cls) # None

\* cls.backends, where hasattr(cls, 'backends')
getattr_backends(bk, cls) == bk[backends_owner(bk, cls)]

\* split(mapping): pops 'protocol' from the mapping it is given and returns it
\* with that same mapping.
split_protocol_optional(mapping) ==
    [outcome |-> Ok([kwargs |-> pop(mapping, "protocol"),
                     protocol |-> get(mapping, "protocol", None)]),
     mapping |-> pop(mapping, "protocol")]

split(mapping) ==
    IF ~contains(mapping, "protocol")
        THEN [outcome |-> Raise(ConfigurationError("protocol")), mapping |-> mapping]
    ELSE [outcome |-> Ok([kwargs |-> pop(mapping, "protocol"),
                          protocol |-> mapping.items["protocol"]]),
          mapping |-> pop(mapping, "protocol")]

\* register(target, id_)(cls)
register_fresh_dict(bk, target, id_, cls) ==
    [bk EXCEPT ![target] = setitem(NoBackends, id_, cls)]
register(bk, target, id_, cls) ==
    LET bk1 == IF ~hasattr_backends(bk, target)
                   THEN [bk EXCEPT ![target] = NoBackends]
                   ELSE bk
        owner == backends_owner(bk1, target)
    IN  [bk1 EXCEPT ![owner] = setitem(bk1[owner], id_, cls)]

\* MultiBackend.instantiate(cls, protocol, *args, **kwargs)
instantiate_role_itself(bk, cls, protocol, args, kwargs) ==
    LET r == init(cls, args, kwargs) IN
    Ended(r, <<cls>>)
instantiate_unknown_as_role(bk, cls, protocol, args, kwargs) ==
    LET objclass == IF protocol # None /\ hasattr_backends(bk, cls)
                       /\ contains(getattr_backends(bk, cls), protocol)
                        THEN getattr_backends(bk, cls).items[protocol] ELSE cls
        r == init(objclass, args, kwargs)
    IN  Ended(r, <<objclass>>)

\* an instantiate without the "protocol is None" branch: None is looked up like
\* any other key
instantiate_null_is_looked_up(bk, cls, protocol, args, kwargs) ==
    IF ~hasattr_backends(bk, cls)
        THEN Ended(Raise(ConfigurationError("backends")), <<>>)
    ELSE IF protocol = None \/ ~contains(getattr_backends(bk, cls), protocol)
        THEN Ended(Raise(ConfigurationError("protocol")), <<>>)
    ELSE LET objclass == getattr_backends(bk, cls).items[protocol]
             r == init(objclass, args, kwargs)
         IN  Ended(r, <<objclass>>)

instantiate(bk, cls, protocol, args, kwargs) ==
    IF protocol # None /\ ~hasattr_backends(bk, cls)
        THEN Ended(Raise(ConfigurationError("backends")), <<>>)
    ELSE IF protocol # None /\ ~contains(getattr_backends(bk, cls), protocol)
        THEN Ended(Raise(ConfigurationError("protocol")), <<>>)
    ELSE LET objclass == IF protocol = None THEN cls
                         ELSE getattr_backends(bk, cls).items[protocol]
             r == init(objclass, args, kwargs)
         IN  Ended(r, <<objclass>>)

\* cls.instantiate(**cfg): Python binds the parameter protocol from the keyword
\* of that name, and raises TypeError when there is none; the other keywords
\* arrive in a new dict.
instantiate_kw(bk, cls, cfg) ==
    IF ~contains(cfg, "protocol") THEN Ended(Raise(TypeError), <<>>)
    ELSE instantiate(bk, cls, cfg.items["protocol"], <<>>, pop(cfg, "protocol"))

\* MultiBackend.from_config(cls, cfg)
from_config_split(bk, cls, cfg) ==
    LET invalid == Raise(ValueError("Invalid backend configuration")) IN
    IF cfg.type = "str"
        THEN [call |-> instantiate(bk, cls, cfg, <<>>, EmptyDict), cfg |-> cfg]
    ELSE IF cfg.type = "dict"
        THEN LET sp == split(cfg) IN
             IF sp.outcome.kind = "raise"
                 THEN [call |-> Ended(invalid, <<>>), cfg |-> sp.mapping]
             ELSE [call |-> instantiate(bk, cls, sp.outcome.value.protocol,
                                        get(cfg, "args", Tuple(<<>>)).items,
                                        get(cfg, "kwargs", EmptyDict)),
                   cfg |-> sp.mapping]
    ELSE [call |-> Ended(invalid, <<>>), cfg |-> cfg]
from_config_lenient(bk, cls, cfg) ==
    LET invalid == Raise(ValueError("Invalid backend configuration")) IN
    IF cfg.type = "dict" /\ contains(cfg, "protocol")
        THEN [call |-> instantiate(bk, cls, cfg.items["protocol"],
                                   get(cfg, "args", Tuple(<<>>)).items,
                                   get(cfg, "kwargs", EmptyDict)),
              cfg |-> cfg]
    ELSE IF cfg.type = "dict" THEN [call |-> Ended(invalid, <<>>), cfg |-> cfg]
    ELSE [call |-> instantiate(bk, cls, IF cfg.type = "str" THEN cfg ELSE None,
                               <<>>, EmptyDict),
          cfg |-> cfg]

from_config(bk, cls, cfg) ==
    LET invalid == Raise(ValueError("Invalid backend configuration")) IN
    IF cfg.type = "str"
        THEN [call |-> instantiate(bk, cls, cfg, <<>>, EmptyDict), cfg |-> cfg]
    ELSE IF cfg.type = "dict"
        THEN IF ~contains(cfg, "protocol")
                 THEN [call |-> Ended(invalid, <<>>), cfg |-> cfg]
             ELSE LET c == instantiate(bk, cls, cfg.items["protocol"],
                                       get(cfg, "args", Tuple(<<>>)).items,
                                       get(cfg, "kwargs", EmptyDict))
                  IN  [call |-> IF c.outcome = Raise(KeyError)
                                    THEN Ended(invalid, c.constructed) ELSE c,
                       cfg |-> cfg]
    ELSE [call |-> Ended(invalid, <<>>), cfg |-> cfg]

\* YAMLConstructor.__call__(loader, node): the mapping split is the one the
\* loader has just built from the node.
YAMLConstructor(bk, cls, node) ==
    LET sp == split(node) IN
    IF sp.outcome.kind = "raise" THEN Ended(sp.outcome, <<>>)
    ELSE LET c == instantiate(bk, cls, sp.outcome.value.protocol, <<>>,
                              sp.outcome.value.kwargs)
         IN  IF c.outcome.kind = "raise" /\ IsException(c.outcome.exc)
                 THEN Ended(Raise(ConfigurationError("config")), c.constructed)
             ELSE c

\* What the registry holds for a role and an identifier: a class, or NoKey.
entry(bk, cls, id_) ==
    IF hasattr_backends(bk, cls) THEN get(getattr_backends(bk, cls), id_, NoKey) ELSE NoKey

\* MultiBackend.has_backend(cls, protocol)
has_backend(bk, cls, protocol) ==
    hasattr_backends(bk, cls) /\ contains(getattr_backends(bk, cls), protocol)

NoCall == [op |-> "none"]

\* An MQHandler instance: which class it is, where it stands with respect to
\* its "with" block, and what its connection and channel attributes hold.
Session(cls, scope, connection, channel) ==
    [cls |-> cls, scope |-> scope, connection |-> connection, channel |-> channel]

\* MQHandler.__init__ sets neither attribute.
Constructed(cls) == Session(cls, "new", "none", "none")

\* inside the with block, __enter__ having succeeded
InScope(cls) == Session(cls, "inside", "open", "open")

\* The registry before any module has registered a backend, and after
\* communication.mq has been imported.
FactoryInit ==
    /\ backends = [c \in Roles \cup Implementations |-> None]
    /\ fcall = NoCall
ImportedMq ==
    /\ backends = register([c \in Roles \cup Implementations |-> None], AsynchronProducer,
                           Str("", "amqp"), MQAsynchronProducer)
    /\ fcall = NoCall

-----------------------------------------------------------------------------
(* The state after construction: MQRPCProducer.__init__ and __enter__,        *)
(* MQEventDrivenConsumer.__init__ and __enter__, the consumer thread started. *)

NoCheck == [code |-> 0, data |-> None, outcome |-> NoResult]
NoProbe == [fn |-> "none"]
NoProcess == [state |-> "not started", alive |-> FALSE, survives |-> {}, timeout |-> 0,
              pending |-> {}, sent |-> <<>>, alive_after |-> <<>>, pc |-> "idle", i |-> 0]

\* __callback's local variable response before its first assignment
Unbound == [type |-> "unbound"]

\* The consumer thread before it has fetched anything.
ThreadInit ==
    /\ inbox = <<>>
    /\ cpc = "while"
    /\ cur = NoMsg
    /\ cb_response = Unbound
    /\ trace = <<>>
    /\ published = <<>>
    /\ sc_result = NoResult
    /\ call_result = NoResult
    /\ late_pumps = 0

Init ==
    /\ lock = NoThread
    /\ correlation_id = NoToken
    /\ response = None
    /\ response_src = NoSrc
    /\ dropped = {}
    /\ default_routing_key \in QueueNames \cup {None}
    /\ uuid = 0
    /\ pc = [t \in Threads |-> "idle"]
    /\ msg = [t \in Threads |-> None]
    /\ armed = [t \in Threads |-> NoToken]
    /\ contended = [t \in Threads |-> FALSE]
    /\ ops = [t \in Threads |-> 0]
    /\ result = [t \in Threads |-> NoResult]
    /\ ncalls = 0
    /\ queue = <<>>
    /\ unacked = <<>>
    /\ callback_queue = <<>>
    /\ processor \in Processors
    /\ consumer = "running"
    /\ nredeliver = 0
    /\ nstray = 0
    /\ chk = NoCheck
    /\ cancel_event = "clear"
    /\ default_exchange = Str("", "")
    /\ ThreadInit
    /\ ImportedMq
    /\ session = InScope("MQRPCProducer")
    /\ probe = NoProbe
    /\ proc = NoProcess
    /\ pumps = 0

-----------------------------------------------------------------------------
(* MQRPCProducer.push_message, statement by statement, called by thread t *)

slot_of == [response |-> response, src |-> response_src, dropped |-> dropped,
            correlation_id |-> correlation_id]

\* A caller thread invokes push_message(msg); the callers pass no routing_key
\* and rely on the instance's default, as the tests do.
Call(t) ==
    /\ pc[t] = "idle"
    /\ ncalls < MaxCalls
    /\ msg' = [msg EXCEPT ![t] = Msg(ncalls + 1)]
    /\ pc' = [pc EXCEPT ![t] = "acquire"]
    /\ contended' = [contended EXCEPT ![t] = lock # NoThread /\ correlation_id # NoToken]
    /\ ncalls' = ncalls + 1
    /\ result' = [result EXCEPT ![t] = NoResult]
    /\ UNCHANGED <<lock, correlation_id, response, response_src, dropped, default_routing_key, uuid,
                   armed, ops,
                   queue, callback_queue, consumer_vars, nstray, chk, other_vars>>

\* self.lock.acquire(); self.correlation_id = str(uuid.uuid4())
Acquire(t) ==
    /\ pc[t] = "acquire"
    /\ acquire(lock)
    /\ lock' = t
    /\ uuid' = uuid + 1
    /\ correlation_id' = uuid4(uuid)
    /\ armed' = [armed EXCEPT ![t] = uuid4(uuid)]
    /\ pc' = [pc EXCEPT ![t] = "declare"]
    /\ UNCHANGED <<response, response_src, dropped, default_routing_key,
                   msg, contended, ops, result, ncalls,
                   queue, callback_queue, consumer_vars, nstray, chk, other_vars>>

\* rkey = self.effective_routing_key(routing_key); self.declare_queue(rkey)
Declare(t) ==
    /\ pc[t] = "declare"
    /\ LET rkey == effective_routing_key(None, default_routing_key) IN
       \E transport_ok \in BOOLEAN :
          IF rkey.kind = "raise"
              THEN /\ transport_ok
                   /\ result' = [result EXCEPT ![t] = rkey]
                   /\ pc' = [pc EXCEPT ![t] = "finally"]
                   /\ ops' = ops
          ELSE IF ~transport_ok
              THEN /\ result' = [result EXCEPT ![t] = Raise(AMQPConnectionError)]
                   /\ pc' = [pc EXCEPT ![t] = "finally"]
                   /\ ops' = ops
          ELSE /\ result' = result
               /\ pc' = [pc EXCEPT ![t] = "publish"]
               /\ ops' = [ops EXCEPT ![t] = @ + 1]
    /\ UNCHANGED <<lock, correlation_id, response, response_src, dropped, default_routing_key, uuid,
                   msg, armed, contended, ncalls,
                   queue, callback_queue, consumer_vars, nstray, chk, other_vars>>

\* self.publish_message(msg, routing_key=rkey, properties=BasicProperties(
\*     reply_to=self.callback_queue, correlation_id=self.correlation_id))
Publish(t) ==
    /\ pc[t] = "publish"
    /\ \E transport_ok \in BOOLEAN :
          IF transport_ok
              THEN /\ queue' = Append(queue,
                          [body |-> serialize(msg[t]),
                           props |-> [reply_to |-> Str("", "amq.gen"),
                                      correlation_id |-> correlation_id,
                                      cause |-> NoResult]])
                   /\ ops' = [ops EXCEPT ![t] = @ + 1]
                   /\ pc' = [pc EXCEPT ![t] = "wait"]
                   /\ result' = result
              ELSE /\ result' = [result EXCEPT ![t] = Raise(AMQPConnectionError)]
                   /\ pc' = [pc EXCEPT ![t] = "finally"]
                   /\ UNCHANGED <<queue, ops>>
    /\ UNCHANGED <<lock, correlation_id, response, response_src, dropped, default_routing_key, uuid,
                   msg, armed, contended, ncalls,
                   callback_queue, consumer_vars, nstray, chk, other_vars>>

\* while self.response is None: self.connection.process_data_events()
\* One pump reads some of the pending deliveries of the reply queue (no_ack) and
\* runs __on_response on each, or fails with a transport error.
Pump(t) ==
    /\ pc[t] = "wait"
    /\ response_is_None(response)
    /\ \/ /\ \E n \in 1..Len(callback_queue) :
                LET slot == dispatch(slot_of, SubSeq(callback_queue, 1, n)) IN
                /\ response' = slot.response
                /\ response_src' = slot.src
                /\ dropped' = slot.dropped
                /\ callback_queue' = SubSeq(callback_queue, n + 1, Len(callback_queue))
          /\ UNCHANGED <<pc, result>>
       \/ /\ result' = [result EXCEPT ![t] = Raise(AMQPConnectionError)]
          /\ pc' = [pc EXCEPT ![t] = "finally"]
          /\ UNCHANGED <<response, response_src, dropped, callback_queue>>
    /\ UNCHANGED <<lock, correlation_id, default_routing_key, uuid,
                   msg, armed, contended, ops, ncalls,
                   queue, consumer_vars, nstray, chk, other_vars>>

\* response = self.deserialize(self.response); response.check(); return response.data
Settle(t) ==
    /\ pc[t] = "wait"
    /\ ~response_is_None(response)
    /\ result' = [result EXCEPT ![t] = process_response(response)]
    /\ pc' = [pc EXCEPT ![t] = "finally"]
    /\ UNCHANGED <<lock, correlation_id, response, response_src, dropped, default_routing_key, uuid,
                   msg, armed, contended, ops, ncalls,
                   queue, callback_queue, consumer_vars, nstray, chk, other_vars>>

\* finally: self.__reset(); self.lock.release() -- and the call returns the
\* value, or raises the exception, it ends with.
Finally(t) ==
    /\ pc[t] = "finally"
    /\ LET slot == reset(slot_of) IN
          /\ response' = slot.response
          /\ response_src' = slot.src
          /\ dropped' = slot.dropped
          /\ correlation_id' = slot.correlation_id
    /\ lock' = NoThread
    /\ pc' = [pc EXCEPT ![t] = "idle"]
    /\ msg' = [msg EXCEPT ![t] = None]
    /\ armed' = [armed EXCEPT ![t] = NoToken]
    /\ contended' = [contended EXCEPT ![t] = FALSE]
    /\ ops' = [ops EXCEPT ![t] = 0]
    /\ UNCHANGED <<default_routing_key, uuid, ncalls, result,
                   queue, callback_queue, consumer_vars, nstray, chk, other_vars>>

push_message(t) ==
    \/ Call(t) \/ Acquire(t) \/ Declare(t) \/ Publish(t)
    \/ Pump(t) \/ Settle(t) \/ Finally(t)

-----------------------------------------------------------------------------
(* The consumer thread and the broker *)

\* start_consuming pumps the consumer's connection: with prefetch_count=1 the
\* broker delivers the head of the queue when nothing is unacknowledged, and
\* __callback runs on it, with whatever the processor does.  A callback that
\* raises ends start_consuming and, through __call__, the thread.
Callback ==
    /\ consumer = "running"
    /\ basic_qos(unacked)
    /\ queue # <<>>
    /\ \E pub_ok \in BOOLEAN :
          LET m == Head(queue)
              cb == callback(m, pub_ok)
          IN  /\ queue' = Tail(queue)
              /\ callback_queue' = callback_queue \o cb.replies
              /\ unacked' = IF cb.acked THEN unacked ELSE Append(unacked, m)
              /\ consumer' = IF cb.raised THEN "dead" ELSE "running"
              /\ processor' = processor
    /\ UNCHANGED <<producer_vars, nredeliver, nstray, chk, other_vars, thread_vars>>

\* The consumer's scope is left and entered again (__exit__ closes the channel,
\* __enter__ opens a new one) and the thread is restarted: the broker puts the
\* unacknowledged message back at the head of the queue.
Redeliver ==
    /\ unacked # <<>>
    /\ nredeliver < MaxRedeliver
    /\ queue' = unacked \o queue
    /\ unacked' = <<>>
    /\ consumer' = "running"
    /\ nredeliver' = nredeliver + 1
    /\ UNCHANGED <<producer_vars, processor, callback_queue, nstray, chk, other_vars, thread_vars>>

\* Another client of the broker publishes to the reply queue: a message with no
\* correlation id, or with one that is not a token of this instance.
StrayReply ==
    /\ nstray < MaxStray
    /\ \E c \in {NoToken, ForeignToken} :
          callback_queue' = Append(callback_queue,
              [body |-> serialize(Response(200, Str("", "stray"), TRUE)),
               props |-> [correlation_id |-> c, cause |-> [kind |-> "stray"]]])
    /\ nstray' = nstray + 1
    /\ UNCHANGED <<producer_vars, queue, consumer_vars, chk, other_vars>>

Next ==
    \/ \E t \in Threads : push_message(t)
    \/ Callback
    \/ Redeliver
    \/ StrayReply

Spec == Init /\ [][Next]_vars

-----------------------------------------------------------------------------
(* Response.check() on its own: every status code, two payloads *)

Codes == (0 - MaxCode)..MaxCode
Payloads == {Str("", "x"), None}

CheckResponse ==
    /\ chk = NoCheck
    /\ \E code \in Codes, data \in Payloads :
          chk' = [code |-> code, data |-> data,
                  outcome |-> check(Response(code, data, TRUE))]
    /\ UNCHANGED <<producer_vars, queue, callback_queue, consumer_vars, nstray, other_vars>>

SpecCheck == Init /\ [][CheckResponse]_vars

-----------------------------------------------------------------------------
(* MQEventDrivenConsumer as a thread body: __call__, start_consuming and     *)
(* __callback statement by statement, with the broker's side of its channel  *)

\* The processors of this specification: those above (for one success and one
\* failure status), and one that ends the process while it handles a message
\* (sys.exit(), or Ctrl-C in the main thread).
ConsumerProcessors ==
    {p \in Processors : p.do = "Response" => p.code \in {200, 500}}
    \cup {[do |-> "raise SystemExit"]}

\* The exchange the consumer is configured with: the default exchange or a
\* named one.
Exchanges == {Str("", ""), Str("", "occo")}

\* The exclusive queue an RPC producer names in reply_to.
ReplyQueue == Str("", "amq.gen")

\* A request body yaml.load cannot construct on the consumer's side.
Garbage(k) == [yaml |-> [type |-> "Unloadable", s |-> Texts[k]]]

\* The k-th request: pushed by an MQRPCProducer (reply_to, correlation_id) or by
\* an MQAsynchronProducer (neither).
Request(k, rpc, loadable) ==
    [body |-> IF loadable THEN serialize(Msg(k)) ELSE Garbage(k),
     props |-> [reply_to |-> IF rpc THEN ReplyQueue ELSE None,
                correlation_id |-> IF rpc THEN k ELSE NoToken,
                cause |-> NoResult]]

\* The state after MQEventDrivenConsumer.__init__ and __enter__, __call__
\* entered by the consumer thread; no producer of the model above is active.
InitConsumer ==
    /\ lock = NoThread
    /\ correlation_id = NoToken
    /\ response = None
    /\ response_src = NoSrc
    /\ dropped = {}
    /\ default_routing_key = None
    /\ uuid = 0
    /\ pc = [t \in Threads |-> "idle"]
    /\ msg = [t \in Threads |-> None]
    /\ armed = [t \in Threads |-> NoToken]
    /\ contended = [t \in Threads |-> FALSE]
    /\ ops = [t \in Threads |-> 0]
    /\ result = [t \in Threads |-> NoResult]
    /\ ncalls = 0
    /\ queue = <<>>
    /\ unacked = <<>>
    /\ callback_queue = <<>>
    /\ processor \in ConsumerProcessors
    /\ consumer = "running"
    /\ nredeliver = 0
    /\ nstray = 0
    /\ chk = NoCheck
    /\ cancel_event \in {"absent", "clear"}
    /\ default_exchange \in Exchanges
    /\ ThreadInit
    /\ ImportedMq
    /\ session = InScope("MQEventDrivenConsumer")
    /\ probe = NoProbe
    /\ proc = NoProcess
    /\ pumps = 0

\* A producer pushes the next request to the consumer's queue.
PushRequest ==
    /\ ncalls < MaxCalls
    /\ \E rpc \in BOOLEAN, loadable \in BOOLEAN :
          queue' = Append(queue, Request(ncalls + 1, rpc, loadable))
    /\ ncalls' = ncalls + 1
    /\ UNCHANGED <<lock, correlation_id, response, response_src, dropped, default_routing_key,
                   uuid, pc, msg, armed, contended, ops, result,
                   callback_queue, consumer_vars, nstray, chk, other_vars>>

\* The broker sends the head of the queue on the consumer's channel, as far as
\* basic_qos allows.
Deliver ==
    /\ queue # <<>>
    /\ basic_qos(unacked)
    /\ unacked' = Append(unacked, Head(queue))
    /\ inbox' = Append(inbox, Head(queue))
    /\ queue' = Tail(queue)
    /\ UNCHANGED <<producer_vars, callback_queue, processor, consumer, nredeliver, nstray, chk, other_vars,
                   cancel_event, default_exchange, cpc, cur, cb_response, trace, published,
                   sc_result, call_result, late_pumps>>

\* The client signals the event the consumer was constructed with.
SetCancel ==
    /\ cancel_event = "clear"
    /\ cpc # "ended"
    /\ cancel_event' = "set"
    /\ UNCHANGED <<producer_vars, queue, callback_queue, unacked, processor, consumer, nredeliver,
                   nstray, chk, other_vars, default_exchange, inbox, cpc, cur, cb_response, trace, published,
                   sc_result, call_result, late_pumps>>

\* The property cancelled:
\* return not self.cancel_event or self.cancel_event.is_set()
cancelled_never(ev) == FALSE
cancelled(ev) == ev = "absent" \/ ev = "set"

\* start_consuming: while not self.cancelled: ... -- the test of the loop; when
\* it fails start_consuming returns None.
WhileNotCancelled ==
    /\ cpc = "while"
    /\ IF cancelled(cancel_event)
          THEN /\ cpc' = "handlers"
               /\ sc_result' = Ok(None)
          ELSE /\ cpc' = "pump"
               /\ sc_result' = sc_result
    /\ UNCHANGED <<producer_vars, queue, callback_queue, unacked, processor, consumer, nredeliver,
                   nstray, chk, other_vars, cancel_event, default_exchange, inbox, cur, cb_response, trace,
                   published, call_result, late_pumps>>

\* self.connection.process_data_events(): a delivery read from the socket is
\* handed to __callback.
ProcessDataEvents ==
    /\ cpc = "pump"
    /\ inbox # <<>>
    /\ cur' = Head(inbox)
    /\ inbox' = Tail(inbox)
    /\ cb_response' = Unbound
    /\ trace' = <<>>
    /\ published' = <<>>
    /\ cpc' = "call"
    /\ UNCHANGED <<producer_vars, queue, callback_queue, unacked, processor, consumer, nredeliver,
                   nstray, chk, other_vars, cancel_event, default_exchange, sc_result, call_result, late_pumps>>

\* process_data_events() returns when nothing (more) has arrived: one pump
\* cycle is over and the loop test is next.
PumpReturns ==
    /\ cpc = "pump"
    /\ inbox = <<>>
    /\ cpc' = "while"
    /\ late_pumps' = IF cancel_event = "set" /\ late_pumps < MaxLatePumps
                         THEN late_pumps + 1 ELSE late_pumps
    /\ pumps' = IF pumps < MaxPumps THEN pumps + 1 ELSE pumps
    /\ UNCHANGED <<producer_vars, queue, callback_queue, unacked, processor, consumer, nredeliver,
                   nstray, chk, factory_vars, session, probe, proc, cancel_event, default_exchange,
                   inbox, cur, cb_response, trace, published, sc_result, call_result>>

\* process_data_events() raises: the connection fails, or Ctrl-C arrives while
\* the thread waits on the socket.  Nothing in start_consuming catches it.
PumpRaises ==
    /\ cpc = "pump"
    /\ \E e \in {AMQPConnectionError, KeyboardInterrupt} : sc_result' = Raise(e)
    /\ cpc' = "handlers"
    /\ UNCHANGED <<producer_vars, queue, callback_queue, unacked, processor, consumer, nredeliver,
                   nstray, chk, other_vars, cancel_event, default_exchange, inbox, cur, cb_response, trace,
                   published, call_result, late_pumps>>

\* How self._call_processor(self.deserialize(body)) ends for the delivery m.
processing(m) ==
    LET d == deserialize(m.body) IN
    IF d.kind = "raise" THEN d ELSE call_processor(processor, d.value)

\* Where __callback continues after the inner try statement: the else branch
\* and "except CommunicationError" assign response and go on to
\* __reply_if_rpc; any other Exception enters "except Exception"; anything
\* else leaves the try statement through finally.
after_processing_skip_reply(o) ==
    IF o.kind = "return" THEN "finally"
    ELSE IF IsCommunicationError(o.exc) THEN "reply"
    ELSE IF IsException(o.exc) THEN "except"
    ELSE "finally"
after_processing(o) ==
    IF o.kind = "return" THEN "reply"
    ELSE IF IsCommunicationError(o.exc) THEN "reply"
    ELSE IF IsException(o.exc) THEN "except"
    ELSE "finally"

\* retval = self._call_processor(self.deserialize(body)) and the assignment of
\* response that follows it.
CallbackCall ==
    /\ cpc = "call"
    /\ LET o == processing(cur)
           to == after_processing(o)
       IN  /\ cpc' = to
           /\ cb_response' = IF o.kind = "return" \/ IsCommunicationError(o.exc)
                                 THEN callback_response(cur.body, o)
                                 ELSE cb_response
           /\ trace' = Append(trace, IF deserialize(cur.body).kind = "raise"
                                         THEN "deserialize raised"
                                         ELSE "processor ended")
    /\ UNCHANGED <<producer_vars, queue, callback_queue, unacked, processor, consumer, nredeliver,
                   nstray, chk, other_vars, cancel_event, default_exchange, inbox, cur, published,
                   sc_result, call_result, late_pumps>>

\* The basic_publish call __reply_if_rpc makes through publish_message(
\* response, exchange='', routing_key=props.reply_to, properties=
\* BasicProperties(correlation_id=props.correlation_id)).
reply_publish(resp, props) ==
    [exchange |-> effective_exchange(Str("", ""), default_exchange).value,
     routing_key |-> effective_routing_key(props.reply_to, default_routing_key).value,
     correlation_id |-> props.correlation_id,
     body |-> serialize(resp)]

\* The broker routes a publish on the default exchange to the queue named by
\* the routing key; the only queue of the model besides the consumer's is the
\* RPC producer's reply queue.
routed(pub, replies) ==
    IF pub.exchange = Str("", "") /\ pub.routing_key = ReplyQueue THEN replies ELSE <<>>

\* self.__reply_if_rpc(resp, props) inside __callback; a publish that fails is
\* logged and not repeated.
ReplyIfRpc(resp) ==
    \E pub_ok \in BOOLEAN :
       LET replies == reply_if_rpc(resp, cur.props, pub_ok)
           pub == reply_publish(resp, cur.props)
       IN  IF cur.props.reply_to # None
               THEN /\ published' = Append(published, pub)
                    /\ trace' = Append(trace, "publish")
                    /\ callback_queue' = callback_queue \o routed(pub, replies)
               ELSE /\ pub_ok
                    /\ UNCHANGED <<published, trace, callback_queue>>

\* self.__reply_if_rpc(response, props), last statement of the outer try.
CallbackReply ==
    /\ cpc = "reply"
    /\ ReplyIfRpc(cb_response)
    /\ cpc' = "finally"
    /\ UNCHANGED <<producer_vars, queue, unacked, processor, consumer, nredeliver,
                   nstray, chk, other_vars, cancel_event, default_exchange, inbox, cur, cb_response,
                   sc_result, call_result, late_pumps>>

\* except Exception: response = comm.Response(500, 'Internal Server Error');
\* self.__reply_if_rpc(response, props)
CallbackExcept ==
    /\ cpc = "except"
    /\ cb_response' = callback_response(cur.body, processing(cur))
    /\ ReplyIfRpc(callback_response(cur.body, processing(cur)))
    /\ cpc' = "finally"
    /\ UNCHANGED <<producer_vars, queue, unacked, processor, consumer, nredeliver,
                   nstray, chk, other_vars, cancel_event, default_exchange, inbox, cur,
                   sc_result, call_result, late_pumps>>

\* finally: if response is None or response.finalize: ch.basic_ack(...)
\* -- whether the message is acknowledged, and how __callback ends.
finally_block_ack_always(resp) ==
    [ack |-> TRUE, ends |-> Ok(None)]
finally_block(resp) ==
    IF resp = Unbound THEN [ack |-> FALSE, ends |-> Raise(UnboundLocalError)]
    ELSE IF resp = None THEN [ack |-> TRUE, ends |-> Ok(None)]
    ELSE IF ~IsResponse(resp) THEN [ack |-> FALSE, ends |-> Raise(AttributeError)]
    ELSE [ack |-> resp.finalize, ends |-> Ok(None)]

\* basic_ack(delivery_tag): the broker forgets the delivery.
basic_ack(outstanding, m) == SelectSeq(outstanding, LAMBDA x : x # m)

\* The finally block of __callback.  An exception out of __callback comes out
\* of process_data_events and of start_consuming.
CallbackFinally ==
    /\ cpc = "finally"
    /\ LET f == finally_block(cb_response) IN
          /\ unacked' = IF f.ack THEN basic_ack(unacked, cur) ELSE unacked
          /\ trace' = IF f.ack THEN Append(trace, "ack") ELSE trace
          /\ IF f.ends.kind = "raise"
                THEN /\ sc_result' = f.ends
                     /\ cpc' = "handlers"
                ELSE /\ sc_result' = sc_result
                     /\ cpc' = "pump"
    /\ UNCHANGED <<producer_vars, queue, callback_queue, processor, consumer, nredeliver,
                   nstray, chk, other_vars, cancel_event, default_exchange, inbox, cur, cb_response,
                   published, call_result, late_pumps>>

\* __call__: try: return self.start_consuming()
\*           except KeyboardInterrupt: log.debug(...)
\*           except Exception: log.exception('Consuming:')
call_propagates(sc) == sc
call(sc) ==
    IF sc.kind = "return" THEN sc
    ELSE IF sc.exc.type = "KeyboardInterrupt" THEN Ok(None)
    ELSE IF IsException(sc.exc) THEN Ok(None)
    ELSE sc

\* __call__ ends, and with it the consumer thread.
CallReturns ==
    /\ cpc = "handlers"
    /\ call_result' = call(sc_result)
    /\ cpc' = "ended"
    /\ UNCHANGED <<producer_vars, queue, callback_queue, unacked, processor, consumer, nredeliver,
                   nstray, chk, other_vars, cancel_event, default_exchange, inbox, cur, cb_response, trace,
                   published, sc_result, late_pumps>>

\* After the thread has ended the client leaves the consumer's scope (__exit__
\* closes the channel: the broker puts the unacknowledged deliveries back at
\* the head of the queue), enters it again, clears the event if there is one
\* and starts a new thread.
Reenter ==
    /\ cpc = "ended"
    /\ nredeliver < MaxRedeliver
    /\ queue' = unacked \o queue
    /\ unacked' = <<>>
    /\ nredeliver' = nredeliver + 1
    /\ cancel_event' = IF cancel_event = "absent" THEN "absent" ELSE "clear"
    /\ inbox' = <<>>
    /\ cpc' = "while"
    /\ cur' = NoMsg
    /\ cb_response' = Unbound
    /\ trace' = <<>>
    /\ published' = <<>>
    /\ sc_result' = NoResult
    /\ call_result' = NoResult
    /\ late_pumps' = 0
    /\ UNCHANGED <<producer_vars, callback_queue, processor, consumer, nstray, chk, other_vars,
                   default_exchange>>

ConsumerThread ==
    \/ WhileNotCancelled
    \/ ProcessDataEvents
    \/ PumpReturns
    \/ CallbackCall
    \/ CallbackReply
    \/ CallbackExcept
    \/ CallbackFinally
    \/ CallReturns

NextConsumer ==
    \/ PushRequest
    \/ Deliver
    \/ SetCancel
    \/ ConsumerThread
    \/ PumpRaises
    \/ Reenter

SpecConsumer == InitConsumer /\ [][NextConsumer]_vars

\* The thread is scheduled and the broker delivers what it may deliver; no
\* assumption on the clients and on failures.
SpecConsumerFair == SpecConsumer /\ WF_vars(ConsumerThread) /\ WF_vars(Deliver)

-----------------------------------------------------------------------------
(* The registry in use: registrations and instantiations in any order *)

\* The arguments of the calls of the model.
Protocols == {None, Str("", "test"), Str("", "amqp"), Str("", "nonexistent")}
Args == {<<>>, <<PyInt(1)>>}
Kwargs == {setitem(setitem(EmptyDict, "a", a), "host", h) :
              a \in {NoKey, PyInt(2)}, h \in {NoKey, Str("", "localhost")}}
\* maps for from_config: protocol, args, kwargs
Configs ==
    {Dict([k \in Keys |-> CASE k = "protocol" -> p
                            [] k = "args" -> a
                            [] k = "kwargs" -> kw
                            [] OTHER -> NoKey]) :
        p \in (Protocols \ {Str("", "amqp")}) \cup {NoKey},
        a \in {NoKey, Tuple(<<PyInt(1)>>)},
        kw \in {NoKey, setitem(EmptyDict, "a", PyInt(2)),
                setitem(EmptyDict, "host", Str("", "localhost"))}}
\* maps whose keys other than protocol are the constructor's keywords
FlatConfigs ==
    {Dict([k \in Keys |-> CASE k = "protocol" -> p
                            [] k = "a" -> a
                            [] k = "host" -> h
                            [] OTHER -> NoKey]) :
        p \in (Protocols \ {Str("", "amqp")}) \cup {NoKey},
        a \in {NoKey, PyInt(2)},
        h \in {NoKey, Str("", "localhost")}}
\* values that are neither a string nor a map
NotConfigs == {List(<<PyInt(1), PyInt(2), PyInt(3)>>), PyInt(7), None}

\* the registrations made: the test role under both identifiers, the
\* communication role under its one protocol, either with any class
Registrations ==
    ({TestFactory} \X ProtocolIds \X Implementations)
    \cup ({AsynchronProducer} \X {Str("", "amqp")} \X Implementations)

Called(op, role, cfg, cfg_after, c) ==
    [op |-> op, role |-> role, cfg |-> cfg, cfg_after |-> cfg_after,
     outcome |-> c.outcome, constructed |-> c.constructed]

\* @factory.register(target, id_) class cls(...)
Register ==
    \E reg \in Registrations :
      LET target == reg[1]  id_ == reg[2]  cls == reg[3] IN
        /\ backends' = register(backends, target, id_, cls)
        /\ fcall' = Called("register", target,
                           [id_ |-> id_, cls |-> cls,
                            replaced |-> entry(backends, target, id_)],
                           [id_ |-> id_, cls |-> cls,
                            replaced |-> entry(backends, target, id_)],
                           Ended(Ok(cls), <<>>))
        /\ UNCHANGED comm_vars

\* cls.instantiate(protocol, *args, **kwargs)
Instantiate ==
    \E cls \in Roles, protocol \in Protocols, args \in Args, kwargs \in Kwargs :
        /\ fcall' = Called("instantiate", cls,
                           [protocol |-> protocol, args |-> args, kwargs |-> kwargs],
                           [protocol |-> protocol, args |-> args, kwargs |-> kwargs],
                           instantiate(backends, cls, protocol, args, kwargs))
        /\ backends' = backends
        /\ UNCHANGED comm_vars

\* cls.instantiate(**cfg)
InstantiateKw ==
    \E cls \in Roles, cfg \in FlatConfigs :
        /\ fcall' = Called("instantiate_kw", cls, cfg, cfg,
                           instantiate_kw(backends, cls, cfg))
        /\ backends' = backends
        /\ UNCHANGED comm_vars

\* cls.from_config(cfg)
FromConfig ==
    \E cls \in Roles, cfg \in Configs \cup (Protocols \ {None}) \cup NotConfigs :
        LET r == from_config(backends, cls, cfg) IN
        /\ fcall' = Called("from_config", cls, cfg, r.cfg, r.call)
        /\ backends' = backends
        /\ UNCHANGED comm_vars

\* yaml.load of a document with a node tagged !<role name>
YAMLLoad ==
    \E cls \in Roles, node \in FlatConfigs :
        /\ hasattr_backends(backends, cls)
        /\ fcall' = Called("yaml", cls, node, node,
                           YAMLConstructor(backends, cls, node))
        /\ backends' = backends
        /\ UNCHANGED comm_vars

NextFactory ==
    \/ Register
    \/ Instantiate
    \/ InstantiateKw
    \/ FromConfig
    \/ YAMLLoad

InitFactory ==
    /\ lock = NoThread
    /\ correlation_id = NoToken
    /\ response = None
    /\ response_src = NoSrc
    /\ dropped = {}
    /\ default_routing_key = None
    /\ uuid = 0
    /\ pc = [t \in Threads |-> "idle"]
    /\ msg = [t \in Threads |-> None]
    /\ armed = [t \in Threads |-> NoToken]
    /\ contended = [t \in Threads |-> FALSE]
    /\ ops = [t \in Threads |-> 0]
    /\ result = [t \in Threads |-> NoResult]
    /\ ncalls = 0
    /\ queue = <<>>
    /\ unacked = <<>>
    /\ callback_queue = <<>>
    /\ processor = [do |-> "None"]
    /\ consumer = "running"
    /\ nredeliver = 0
    /\ nstray = 0
    /\ chk = NoCheck
    /\ cancel_event = "clear"
    /\ default_exchange = Str("", "")
    /\ ThreadInit
    /\ FactoryInit
    /\ session = Constructed("MQAsynchronProducer")
    /\ probe = NoProbe
    /\ proc = NoProcess
    /\ pumps = 0

SpecFactory == InitFactory /\ [][NextFactory]_vars

-----------------------------------------------------------------------------
(* The registry with roles that derive from one another: every subclass of   *)
(* a MultiBackend class is one itself, so TestFactoryImp, the subclass of     *)
(* TestFactory, can be registered for and resolved on like TestFactory.       *)

RelatedRoles == {TestFactory, TestFactoryImp, AsynchronProducer}

\* @factory.register(target, id_) class cls(...), for any of the roles
RegisterRelated ==
    \E target \in RelatedRoles, id_ \in ProtocolIds, cls \in Implementations :
        /\ backends' = register(backends, target, id_, cls)
        /\ fcall' = Called("register", target,
                           [id_ |-> id_, cls |-> cls,
                            replaced |-> entry(backends, target, id_)],
                           [id_ |-> id_, cls |-> cls,
                            replaced |-> entry(backends, target, id_)],
                           Ended(Ok(cls), <<>>))
        /\ UNCHANGED comm_vars

\* cls.instantiate(protocol), for any of the roles
InstantiateRelated ==
    \E cls \in RelatedRoles, protocol \in Protocols :
        /\ fcall' = Called("instantiate", cls,
                           [protocol |-> protocol, args |-> <<>>, kwargs |-> EmptyDict],
                           [protocol |-> protocol, args |-> <<>>, kwargs |-> EmptyDict],
                           instantiate(backends, cls, protocol, <<>>, EmptyDict))
        /\ backends' = backends
        /\ UNCHANGED comm_vars

\* cls.has_backend(protocol), for any of the roles
HasBackend ==
    \E cls \in RelatedRoles, protocol \in Protocols \ {None} :
        /\ fcall' = Called("has_backend", cls, [protocol |-> protocol],
                           [protocol |-> protocol],
                           Ended(Ok([type |-> "bool",
                                     b |-> has_backend(backends, cls, protocol)]), <<>>))
        /\ backends' = backends
        /\ UNCHANGED comm_vars

NextRelated ==
    \/ RegisterRelated
    \/ InstantiateRelated
    \/ HasBackend

SpecRelated == InitFactory /\ [][NextRelated]_vars

-----------------------------------------------------------------------------
(* MQHandler as a context manager, and MQAsynchronProducer.push_message      *)
(* statement by statement, with a consumer on the queue that starts at any   *)
(* time.                                                                      *)

HandlerClasses == {"MQAsynchronProducer", "MQRPCProducer", "MQEventDrivenConsumer"}

\* what the handler's scope and the fire-and-forget push leave alone
async_frame == <<lock, correlation_id, response, response_src, dropped, default_routing_key,
                 uuid, armed, contended, callback_queue, unacked, processor, nredeliver,
                 nstray, chk, cancel_event, default_exchange, cpc, cur, cb_response, trace,
                 published, sc_result, call_result, late_pumps, factory_vars, probe, proc, pumps>>

InitAsync ==
    /\ lock = NoThread
    /\ correlation_id = NoToken
    /\ response = None
    /\ response_src = NoSrc
    /\ dropped = {}
    /\ default_routing_key \in QueueNames \cup {None}
    /\ uuid = 0
    /\ pc = [t \in Threads |-> "idle"]
    /\ msg = [t \in Threads |-> None]
    /\ armed = [t \in Threads |-> NoToken]
    /\ contended = [t \in Threads |-> FALSE]
    /\ ops = [t \in Threads |-> 0]
    /\ result = [t \in Threads |-> NoResult]
    /\ ncalls = 0
    /\ queue = <<>>
    /\ unacked = <<>>
    /\ callback_queue = <<>>
    /\ processor = [do |-> "None"]
    /\ consumer = "not started"
    /\ nredeliver = 0
    /\ nstray = 0
    /\ chk = NoCheck
    /\ cancel_event = "clear"
    /\ default_exchange = Str("", "")
    /\ ThreadInit
    /\ ImportedMq
    /\ \E cls \in HandlerClasses : session = Constructed(cls)
    /\ probe = NoProbe
    /\ proc = NoProcess
    /\ pumps = 0

\* MQHandler.__exit__: self.channel.close()
exit(s) ==
    [s EXCEPT !.scope = "exited", !.channel = "closed"]

\* "with handler:" -- __enter__: self.connection = BlockingConnection(...),
\* self.channel = self.connection.channel(), and in MQRPCProducer and
\* MQEventDrivenConsumer the declarations and setup_consumer.  Any of them may
\* fail with a transport error; then the block is not entered and __exit__ is
\* not called.
Enter ==
    /\ session.scope \in {"new", "exited"}
    /\ \A t \in Threads : pc[t] = "idle"
    /\ \E failing \in {"none", "connection", "channel", "setup"} :
          /\ failing = "setup" => session.cls # "MQAsynchronProducer"
          /\ session' =
                CASE failing = "none" -> InScope(session.cls)
                  [] failing = "connection" -> session
                  [] failing = "channel" -> [session EXCEPT !.connection = "open"]
                  [] failing = "setup" ->
                         [session EXCEPT !.connection = "open", !.channel = "open"]
    /\ UNCHANGED <<async_frame, pc, msg, ops, result, ncalls, queue, consumer, inbox>>

\* The with block is left, by its end or by an exception of its body:
\* __exit__(type, value, tb).
Exit ==
    /\ session.scope = "inside"
    /\ \A t \in Threads : pc[t] = "idle"
    /\ session' = exit(session)
    /\ UNCHANGED <<async_frame, pc, msg, ops, result, ncalls, queue, consumer, inbox>>

\* A caller inside the block invokes push_message(msg, routing_key).
AsyncCall(t) ==
    /\ session = InScope("MQAsynchronProducer")
    /\ pc[t] = "idle"
    /\ ncalls < MaxCalls
    /\ \E routing_key \in QueueNames \cup {None} :
          msg' = [msg EXCEPT ![t] = [data |-> Msg(ncalls + 1), routing_key |-> routing_key]]
    /\ pc' = [pc EXCEPT ![t] = "declare"]
    /\ ops' = [ops EXCEPT ![t] = 0]
    /\ result' = [result EXCEPT ![t] = NoResult]
    /\ ncalls' = ncalls + 1
    /\ UNCHANGED <<async_frame, session, queue, consumer, inbox>>

\* rkey = self.effective_routing_key(routing_key); self.declare_queue(rkey)
AsyncDeclare(t) ==
    /\ pc[t] = "declare"
    /\ LET rkey == effective_routing_key(msg[t].routing_key, default_routing_key) IN
       \E transport_ok \in BOOLEAN :
          IF rkey.kind = "raise"
              THEN /\ transport_ok
                   /\ result' = [result EXCEPT ![t] = rkey]
                   /\ pc' = [pc EXCEPT ![t] = "idle"]
                   /\ ops' = ops
          ELSE IF ~transport_ok
              THEN /\ result' = [result EXCEPT ![t] = Raise(AMQPConnectionError)]
                   /\ pc' = [pc EXCEPT ![t] = "idle"]
                   /\ ops' = ops
          ELSE /\ result' = result
               /\ pc' = [pc EXCEPT ![t] = "publish"]
               /\ ops' = [ops EXCEPT ![t] = @ + 1]
    /\ UNCHANGED <<async_frame, session, msg, ncalls, queue, consumer, inbox>>

\* What push_message does after the publish.
after_publish_wait_for_consumer == "wait"
after_publish == "return"

\* self.publish_message(msg, routing_key=rkey): one basic_publish on the
\* default exchange, which the broker routes to the queue named rkey; then the
\* method ends, returning None.  (pushed_while is history: whether a consumer
\* was running when the message was published.)
AsyncPublish(t) ==
    /\ pc[t] = "publish"
    /\ \E transport_ok \in BOOLEAN :
          IF transport_ok
              THEN /\ queue' = Append(queue,
                          [body |-> serialize(msg[t].data),
                           props |-> [reply_to |-> None, correlation_id |-> NoToken,
                                      cause |-> NoResult],
                           pushed_while |-> consumer])
                   /\ ops' = [ops EXCEPT ![t] = @ + 1]
                   /\ pc' = [pc EXCEPT ![t] = after_publish]
                   /\ result' = result
              ELSE /\ result' = [result EXCEPT ![t] = Raise(AMQPConnectionError)]
                   /\ pc' = [pc EXCEPT ![t] = "idle"]
                   /\ UNCHANGED <<queue, ops>>
    /\ UNCHANGED <<async_frame, session, msg, ncalls, consumer, inbox>>

\* the implicit "return None" at the end of push_message
AsyncReturn(t) ==
    /\ pc[t] = "return"
    /\ result' = [result EXCEPT ![t] = Ok(None)]
    /\ pc' = [pc EXCEPT ![t] = "idle"]
    /\ UNCHANGED <<async_frame, session, msg, ops, ncalls, queue, consumer, inbox>>

\* A consumer of the queue is started (its thread runs start_consuming).
ConsumerStart ==
    /\ consumer = "not started"
    /\ consumer' = "running"
    /\ UNCHANGED <<async_frame, session, pc, msg, ops, result, ncalls, queue, inbox>>

\* The broker delivers the head of the queue to the running consumer, which
\* processes and acknowledges it.
BrokerDeliver ==
    /\ consumer = "running"
    /\ queue # <<>>
    /\ inbox' = Append(inbox, Head(queue))
    /\ queue' = Tail(queue)
    /\ UNCHANGED <<async_frame, session, pc, msg, ops, result, ncalls, consumer>>

async_push_message(t) ==
    \/ AsyncCall(t) \/ AsyncDeclare(t) \/ AsyncPublish(t) \/ AsyncReturn(t)

NextAsync ==
    \/ Enter
    \/ Exit
    \/ \E t \in Threads : async_push_message(t)
    \/ ConsumerStart
    \/ BrokerDeliver

SpecAsync == InitAsync /\ [][NextAsync]_vars

\* The broker keeps delivering to a consumer that is running; nothing is
\* assumed of the producer.
SpecAsyncFair == SpecAsync /\ WF_vars(BrokerDeliver)

-----------------------------------------------------------------------------
(* The two producers side by side: an MQRPCProducer and an MQAsynchronProducer *)
(* constructed from the same configuration, each inside its with block, one    *)
(* caller thread on each, and the consumer on the queue.                       *)

RpcCaller == 1
AsyncCaller == 2

\* session is that of the fire-and-forget producer; both are in scope.
InitProducers ==
    /\ lock = NoThread
    /\ correlation_id = NoToken
    /\ response = None
    /\ response_src = NoSrc
    /\ dropped = {}
    /\ default_routing_key \in QueueNames \cup {None}
    /\ uuid = 0
    /\ pc = [t \in Threads |-> "idle"]
    /\ msg = [t \in Threads |-> None]
    /\ armed = [t \in Threads |-> NoToken]
    /\ contended = [t \in Threads |-> FALSE]
    /\ ops = [t \in Threads |-> 0]
    /\ result = [t \in Threads |-> NoResult]
    /\ ncalls = 0
    /\ queue = <<>>
    /\ unacked = <<>>
    /\ callback_queue = <<>>
    /\ processor \in Processors \cup ExceptionProcessors
    /\ consumer = "running"
    /\ nredeliver = 0
    /\ nstray = 0
    /\ chk = NoCheck
    /\ cancel_event = "clear"
    /\ default_exchange = Str("", "")
    /\ ThreadInit
    /\ ImportedMq
    /\ session = InScope("MQAsynchronProducer")
    /\ probe = NoProbe
    /\ proc = NoProcess
    /\ pumps = 0

NextProducers ==
    \/ push_message(RpcCaller)
    \/ async_push_message(AsyncCaller)
    \/ Callback

SpecProducers == InitProducers /\ [][NextProducers]_vars

-----------------------------------------------------------------------------
(* parproc.py: GracefulProcess.graceful_terminate, statement by statement,   *)
(* and the child process it signals.                                          *)

SIGLIST == <<"SIGINT", "SIGTERM", "SIGKILL">>

\* izip(self.SIGLIST, self.SIGLIST[1:]): the pairs (sig, next_sig) of the loop
izip(a, b) == [i \in 1..(IF Len(a) < Len(b) THEN Len(a) ELSE Len(b)) |-> <<a[i], b[i]>>]
SigPairs == izip(SIGLIST, SubSeq(SIGLIST, 2, Len(SIGLIST)))

\* The signals a child may catch and survive; SIGKILL cannot be caught.
Catchable == {"SIGINT", "SIGTERM"}

\* what the process primitives leave alone
proc_frame == <<producer_vars, queue, callback_queue, consumer_vars, nstray, chk,
                factory_vars, session, probe, pumps>>

\* Process.start(): the child runs; which signals it survives is its own code's
\* business.  "sent" and "alive_after" are history: the signals sent to it, and
\* for each whether the child was alive when the join that followed returned.
Start ==
    /\ proc = NoProcess
    /\ \E survives \in SUBSET Catchable, timeout \in {1, 10} :
          proc' = [state |-> "started", alive |-> TRUE, survives |-> survives,
                   timeout |-> timeout, pending |-> {}, sent |-> <<>>,
                   alive_after |-> <<>>, pc |-> "idle", i |-> 0]
    /\ UNCHANGED proc_frame

\* The child ends, on its own or by a signal that is pending.
ChildExits ==
    /\ proc.state = "started"
    /\ proc.alive
    /\ proc' = [proc EXCEPT !.alive = FALSE]
    /\ UNCHANGED proc_frame

\* graceful_terminate(timeout) is called: the loop starts with the first pair
GracefulTerminate ==
    /\ proc.state = "started"
    /\ proc.pc = "idle"
    /\ proc' = [proc EXCEPT !.pc = "kill", !.i = 1]
    /\ UNCHANGED proc_frame

\* the loop of graceful_terminate has run out of pairs, or was left by break
LoopEnds(p) == [p EXCEPT !.pc = "returned"]

\* for sig, next_sig in izip(...): the next pair, or the end of the loop
NextPair(p) ==
    IF p.i + 1 \in DOMAIN SigPairs THEN [p EXCEPT !.pc = "kill", !.i = p.i + 1]
    ELSE LoopEnds(p)

\* _trykill: os.kill(self.pid, sig)
Kill ==
    /\ proc.state = "started"
    /\ proc.pc = "kill"
    /\ proc' = [proc EXCEPT !.sent = Append(@, SigPairs[proc.i][1]),
                            !.pending = @ \cup {SigPairs[proc.i][1]},
                            !.pc = "join"]
    /\ UNCHANGED proc_frame

\* _trykill: self.join(timeout) returns; a child that does not survive a
\* pending signal has exited by then, unless the join was cut short by an
\* exception, which is logged and dropped.  if self.is_alive(): raise
\* StillRunning, on which the loop continues with the next pair; else the loop
\* breaks.
Join ==
    /\ proc.state = "started"
    /\ proc.pc = "join"
    /\ \E interrupted \in BOOLEAN :
          LET alive == proc.alive /\ (interrupted \/ proc.pending \subseteq proc.survives) IN
          LET joined == [proc EXCEPT !.alive = alive,
                                     !.alive_after = Append(@, alive)] IN
          proc' = IF alive THEN NextPair(joined) ELSE LoopEnds(joined)
    /\ UNCHANGED proc_frame

NextProc ==
    \/ Start
    \/ ChildExits
    \/ GracefulTerminate
    \/ Kill
    \/ Join

SpecProc == InitFactory /\ [][NextProc]_vars

-----------------------------------------------------------------------------
(* Functions and constructors called on their own: one call, its arguments   *)
(* and its outcome.                                                           *)

\* what one call of a function leaves alone
pure_frame == <<producer_vars, queue, callback_queue, consumer_vars, nstray, chk,
                factory_vars, session, proc, pumps>>

\* What a caller passes as exchange or routing_key, and what the configuration
\* gives an instance as its default: nothing, the empty string, or a name.
Names == {None, Str("", ""), Str("", "test"), Str("", "occo")}

\* MQHandler.effective_exchange(override) on an instance with the given default
EffectiveExchange ==
    /\ probe = NoProbe
    /\ \E override \in Names, default \in Names :
          probe' = [fn |-> "effective_exchange", override |-> override, default |-> default,
                    outcome |-> effective_exchange(override, default)]
    /\ UNCHANGED pure_frame

\* MQHandler.effective_routing_key(override) on an instance with the given default
EffectiveRoutingKey ==
    /\ probe = NoProbe
    /\ \E override \in Names, default \in Names :
          probe' = [fn |-> "effective_routing_key", override |-> override, default |-> default,
                    outcome |-> effective_routing_key(override, default)]
    /\ UNCHANGED pure_frame

\* What callers hand to push_message and the consumer publishes as a reply:
\* plain values, envelopes, and objects of a class that yaml.load cannot find
\* where the document is loaded (a class of another code base, or one defined
\* inside a function).
SentPayloads ==
    {None, Str("", "ping"), PyInt(1), List(<<Str("", "ping"), PyInt(1)>>),
     Response(200, Str("", "ping"), TRUE), Response(200, None, FALSE),
     ExceptionResponse(403, ValueError(Str("", "bad"))),
     Unloadable, Response(200, Unloadable, TRUE)}

\* YAMLChannel: deserialize(serialize(P))
RoundTrip ==
    /\ probe = NoProbe
    /\ \E P \in SentPayloads :
          probe' = [fn |-> "round trip", P |-> P, repr |-> serialize(P),
                    outcome |-> deserialize(serialize(P))]
    /\ UNCHANGED pure_frame

\* The keys MQHandler.__init__ reads with config[...], in the order it reads
\* them, and the key the consumer needs on top of them.
ConnectionKeys == <<"user", "password", "host", "vhost">>
MQKeys == {"user", "password", "host", "vhost", "queue"}

\* The configurations a role may be constructed from: any of the keys present.
MQConfigs ==
    {Dict([k \in MQKeys |-> IF k \in S THEN Str("", k) ELSE NoKey]) : S \in SUBSET MQKeys}

\* How a constructor ends: it returns the instance (a handler that has not
\* entered its scope) or raises, and what the connection attribute of the
\* object it worked on holds.
Built(cls) == [outcome |-> Ok(Constructed(cls)), connection |-> Constructed(cls).connection]
Failed(e, connection) == [outcome |-> Raise(e), connection |-> connection]

\* an __init__ that connects as soon as it has the connection parameters
MQHandler_init_connects(cls, config) ==
    LET missing == {i \in DOMAIN ConnectionKeys : ~contains(config, ConnectionKeys[i])} IN
    IF missing # {}
        THEN Failed(ConfigurationError(ConnectionKeys[CHOOSE i \in missing :
                                                        \A j \in missing : i <= j]), "none")
    ELSE [outcome |-> Ok(InScope(cls)), connection |-> "open"]

\* MQHandler.__init__(**config): the first key that is missing ends it with
\* ConfigurationError; credentials and connection parameters are only stored.
MQHandler_init(cls, config) ==
    LET missing == {i \in DOMAIN ConnectionKeys : ~contains(config, ConnectionKeys[i])} IN
    IF missing # {}
        THEN Failed(ConfigurationError(ConnectionKeys[CHOOSE i \in missing :
                                                        \A j \in missing : i <= j]), "none")
    ELSE Built(cls)

\* MQEventDrivenConsumer.__init__(processor, ..., **config): processor is a
\* required parameter; MQHandler.__init__ runs first, config['queue'] is read
\* last.
MQEventDrivenConsumer_init(processor_arg, config) ==
    LET handler == MQHandler_init("MQEventDrivenConsumer", config) IN
    IF processor_arg = "missing" THEN Failed(TypeError, "none")
    ELSE IF handler.outcome.kind = "raise" THEN handler
    ELSE IF ~contains(config, "queue")
        THEN Failed(ConfigurationError("queue"), handler.connection)
    ELSE handler

\* cls(**config), for each of the three AMQP classes
Construct ==
    /\ probe = NoProbe
    /\ \E cls \in HandlerClasses, config \in MQConfigs, processor_arg \in {"given", "missing"} :
          /\ cls # "MQEventDrivenConsumer" => processor_arg = "missing"
          /\ probe' = [fn |-> "construct", cls |-> cls, config |-> config,
                       processor |-> processor_arg,
                       built |-> IF cls = "MQEventDrivenConsumer"
                                 THEN MQEventDrivenConsumer_init(processor_arg, config)
                                 ELSE MQHandler_init(cls, config)]
    /\ UNCHANGED pure_frame

NextPure ==
    \/ EffectiveExchange
    \/ EffectiveRoutingKey
    \/ RoundTrip
    \/ Construct

SpecPure == Init /\ [][NextPure]_vars

-----------------------------------------------------------------------------
(* Properties *)

\* The caller's thread keeps running: its wait loop goes on pumping the
\* connection, and a pump of a connection that has deliveries pending hands
\* them to __on_response; the statements after the loop and the finally block
\* are executed.  Nothing is assumed of the transport's failures, of the
\* consumer or of other clients.
SpecFair ==
    /\ Spec
    /\ \A t \in Threads :
          /\ WF_vars(Pump(t) /\ pc'[t] = "wait")
          /\ WF_vars(Settle(t))
          /\ WF_vars(Finally(t))

InFlight == {"declare", "publish", "wait", "finally"}

\* The call of thread t has a reply in the slot and is about to return or raise.
Settled(t) == pc[t] = "finally" /\ response # None

C2_SingleFlight ==
    /\ Cardinality({t \in Threads : pc[t] \in InFlight}) <= 1
    /\ \A t \in Threads : pc[t] \in InFlight =>
          /\ lock = t
          /\ correlation_id = armed[t]
          /\ response # None => response_src.correlation_id = armed[t]

C2_Witness ==
    \E t, u \in Threads :
        /\ t # u
        /\ pc[t] = "wait" /\ response # None /\ correlation_id = armed[t]
        /\ pc[u] = "acquire"

\* C3: when push_message returns or raises, for whatever reason, the token is
\* unset, the reply slot is empty and the lock is free.
C3_ReleasedOnExit ==
    [][\A t \in Threads :
          (pc[t] # "idle" /\ pc'[t] = "idle")
              => (correlation_id' = NoToken /\ response' = None /\ lock' = NoThread
                  /\ acquire(lock'))]_vars

\* a call has ended by a reply that does not deserialize, and the next call on
\* the instance has got the lock
C3_Witness ==
    \E t, u \in Threads :
        /\ pc[t] = "idle" /\ result[t] = Raise(ConstructorError)
        /\ pc[u] = "declare" /\ lock = u /\ armed[u] = 2

\* C4: the reply slot is filled only by a delivery whose correlation_id is the
\* token armed by the call in flight; a delivery with another correlation id or
\* with none is never stored and never returned.
C4_OnlyMatchingReply ==
    /\ response # None =>
          /\ correlation_id # NoToken
          /\ response_src.correlation_id = correlation_id
          /\ \E t \in Threads : pc[t] \in {"wait", "finally"} /\ armed[t] = correlation_id
    /\ correlation_id \notin dropped
    /\ \A t \in Threads : result[t] # Ok(Str("", "stray"))

\* a delivery with no correlation id and a reply to an earlier call were both
\* ignored by the callback, and the reply to this call was stored
C4_Witness ==
    \E t \in Threads :
        /\ pc[t] = "wait" /\ armed[t] = 2
        /\ dropped = {NoToken, 1}
        /\ response # None

\* The result push_message has when the consumer's reply to the request with
\* message m comes back.
ReplyFor(m) ==
    process_response(serialize(
        callback_response(serialize(m), call_processor(processor, m))))

\* C5: the k-th call ends with the consumer's reply to the k-th request, also
\* after replies to earlier requests were delivered late or more than once.
C5_OwnReply ==
    \A t \in Threads : Settled(t) =>
        /\ response_src.cause = call_processor(processor, msg[t])
        /\ result[t] = ReplyFor(msg[t])

\* the second call returns "RE: hello" after a reply to the first call was
\* delivered during the second call
C5_Witness ==
    \E t \in Threads :
        /\ Settled(t) /\ armed[t] = 2 /\ 1 \in dropped
        /\ result[t] = Ok(Str("RE: ", "hello"))

\* C6: when the processor returns Response(status, payload), push_message
\* returns payload for 200..299, raises CriticalError(status, payload) for
\* 400..499 and TransientError(status, payload) for 500..599; it never returns
\* the Response object.
C6_StatusToOutcome ==
    \A t \in Threads : (Settled(t) /\ processor.do = "Response") =>
        LET status == processor.code
            payload == RE(msg[t])
        IN  /\ status \in 200..299 => result[t] = Ok(payload)
            /\ status \in 400..499 => result[t] = Raise(CriticalError(status, payload))
            /\ status \in 500..599 => result[t] = Raise(TransientError(status, payload))
            /\ result[t].kind = "return" => ~IsResponse(result[t].value)

C6_Witness ==
    \E t \in Threads :
        /\ Settled(t) /\ processor.do = "Response"
        /\ result[t] = Raise(CriticalError(499, Str("RE: ", "ping")))

C8_OtherExceptionIs500 ==
    \A t \in Threads : (Settled(t) /\ processor.do = "raise ValueError") =>
        /\ deserialize(response).value.type = "Response"
        /\ deserialize(response).value.http_code = 500
        /\ result[t].kind = "raise"
        /\ result[t].exc.type = "TransientError"
        /\ result[t].exc.http_code = 500

C8_Witness ==
    \E t \in Threads :
        /\ Settled(t) /\ processor.do = "raise ValueError"
        /\ result[t] = Raise(TransientError(500, Str("", "Internal Server Error")))

\* C9 (as stated): when the processor returns a raw value, the callback
\* completes without raising, the message is acknowledged and push_message
\* returns the value.
C9_RawValueReturned ==
    processor.do = "raw" =>
        /\ consumer = "running"
        /\ unacked = <<>>
        /\ \A t \in Threads : Settled(t) => result[t] = Ok(RE(msg[t]))

\* C10: Response.check() ends in exactly one way for every status code: no
\* exception for 200..299, CriticalError(code, payload) for 400..499,
\* TransientError(code, payload) for 500..599, NotImplementedError otherwise.
C10_CheckBands ==
    chk.outcome # NoResult =>
        /\ chk.code \in 200..299 => chk.outcome = Ok(None)
        /\ chk.code \in 400..499 => chk.outcome = Raise(CriticalError(chk.code, chk.data))
        /\ chk.code \in 500..599 => chk.outcome = Raise(TransientError(chk.code, chk.data))
        /\ (chk.code <= 199 \/ chk.code \in 300..399 \/ chk.code >= 600)
              => chk.outcome = Raise(NotImplementedError)

C10_Witness ==
    /\ chk.code = 599
    /\ chk.outcome = Raise(TransientError(599, Str("", "x")))

-----------------------------------------------------------------------------
(* Properties of the consumer thread (SpecConsumer) *)

Range(s) == {s[i] : i \in DOMAIN s}

InCallback == {"call", "reply", "except", "finally"}

\* __callback has run on the delivery cur and is over (it returned or raised).
CallbackOver == cur # NoMsg /\ cpc \notin InCallback

\* The broker has got an acknowledgement for cur / still holds cur as delivered
\* and not acknowledged.
Acked == "ack" \in Range(trace) /\ cur \notin Range(unacked)
NotAcked == "ack" \notin Range(trace) /\ cur \in Range(unacked)

\* C11: when the processing of a delivered message yields a Response, the
\* message is acknowledged if and only if the Response's finalize is true; a
\* Response built without a finalize argument (ExceptionResponse(403, e)) has
\* finalize true and is acknowledged.
C11_AckIffFinalize ==
    (CallbackOver /\ processing(cur).kind = "return" /\ IsResponse(processing(cur).value)) =>
        /\ IF processing(cur).value.finalize THEN Acked ELSE NotAcked
        /\ processor.do = "ExceptionResponse" => Acked

\* a Response with finalize=False was returned for an RPC request: the reply is
\* published, the message is still unacknowledged and the thread is back in
\* its loop
C11_Witness ==
    /\ CallbackOver /\ cpc = "while"
    /\ processor = [do |-> "Response", code |-> 200, finalize |-> FALSE]
    /\ trace = <<"processor ended", "publish">>
    /\ unacked = <<cur>>

\* The processor returned a Response with finalize=False for the delivery m.
FinalizeFalse(m) ==
    /\ processing(m).kind = "return"
    /\ IsResponse(processing(m).value)
    /\ ~processing(m).value.finalize

\* C12 (as stated): at the end of the callback the message is unacknowledged
\* only when the processor returned a Response with finalize=False; after
\* every other outcome (a Response with finalize true, a raw value, None, a
\* raised CommunicationError, any other raised exception, a body that does not
\* deserialize) it is acknowledged.
C12_UnackedOnlyOnFinalizeFalse ==
    CallbackOver => IF FinalizeFalse(cur) THEN NotAcked ELSE Acked

C15_OneUnacked ==
    /\ Len(unacked) <= 1
    /\ Len(inbox) <= 1
    /\ cpc \in InCallback => (inbox = <<>> /\ unacked = <<cur>>)

\* the callback runs on the first message while the second waits in the queue
C15_Witness ==
    /\ cpc = "reply"
    /\ unacked = <<cur>>
    /\ Len(queue) = 1
    /\ ncalls = 2

\* C16: the acknowledgement is the last thing __callback does for a delivery:
\* it comes after the processor call has ended and, for a delivery with
\* reply_to, after the reply was published; while the processor has not ended
\* the broker holds the delivery as unacknowledged.
C16_AckAfterProcessingAndReply ==
    /\ "ack" \in Range(trace) =>
          /\ trace[Len(trace)] = "ack"
          /\ trace[1] \in {"processor ended", "deserialize raised"}
          /\ cur.props.reply_to # None => (Len(trace) = 3 /\ trace[2] = "publish")
    /\ cpc \in InCallback \ {"finally"} => cur \in Range(unacked)
    /\ (cpc = "call" /\ cur # NoMsg) => trace = <<>>

C16_Witness ==
    /\ CallbackOver
    /\ trace = <<"processor ended", "publish", "ack">>
    /\ processor.do = "raise CriticalError"
    /\ unacked = <<>>

\* A message is held back: its processing ended with finalize=False, the
\* broker holds it as unacknowledged, and the consumer thread is in its loop.
HeldBack(m) ==
    /\ m # NoMsg
    /\ FinalizeFalse(m)
    /\ cur = m /\ m \in Range(unacked)
    /\ cpc \in {"while", "pump"}
    /\ cancel_event = "clear"

\* The consumer has stopped running: it was cancelled or its thread has ended.
Stopped == cancel_event # "clear" \/ cpc \in {"handlers", "ended"}

\* C17 (as stated): a message whose processing ended with finalize=False is
\* eventually delivered for processing again while the consumer keeps running.
C17_EventuallyRedelivered ==
    HeldBack(cur) ~> (cur \in Range(inbox) \/ Stopped)

\* C18: after cancel_event is set at most one pump cycle completes, and when
\* start_consuming has returned the callback it ran last is complete: the
\* reply was published if the delivery carried reply_to, and the delivery is
\* acknowledged unless the response says finalize=False.
C18_ReturnsWithinOnePump ==
    /\ late_pumps <= 1
    /\ (cancel_event = "set" /\ sc_result = Ok(None) /\ cur # NoMsg) =>
          /\ CallbackOver
          /\ cur.props.reply_to # None => Len(published) = 1
          /\ IF FinalizeFalse(cur) THEN NotAcked ELSE Acked

\* the event was set while the callback ran; start_consuming returned after
\* that pump cycle, with the reply published and the message acknowledged
C18_Witness ==
    /\ cancel_event = "set" /\ sc_result = Ok(None) /\ late_pumps = 1
    /\ trace = <<"processor ended", "publish", "ack">>
    /\ unacked = <<>>

\* C19 (as stated): a consumer constructed without cancel_event never returns
\* from start_consuming.
C19_LoopsForeverWithoutEvent ==
    cancel_event = "absent" => sc_result # Ok(None)

\* C20: __call__ never raises: when the thread body ends it has returned,
\* whatever came out of start_consuming.
C20_CallNeverRaises ==
    cpc = "ended" => call_result = Ok(None)

\* __call__ has returned after __callback raised / after Ctrl-C
C20_Witness ==
    /\ cpc = "ended"
    /\ sc_result = Raise(KeyboardInterrupt)
    /\ call_result = Ok(None)

-----------------------------------------------------------------------------
(* Properties of the RPC wait loop and of the request *)

\* The reply queue holds a delivery carrying the token of thread t's call.
MatchingReplyPending(t) ==
    \E i \in DOMAIN callback_queue :
        callback_queue[i].props.correlation_id = armed[t]

\* C21: a push_message that has published its request leaves the wait loop
\* only with a reply carrying its token in the slot, or by an exception of the
\* transport; it returns a value only out of such a reply; and once a reply
\* carrying its token is in the reply queue the call eventually returns or
\* raises.
C21_WaitsForMatchingReply ==
    /\ [][\A t \in Threads :
            (pc[t] = "wait" /\ pc'[t] # "wait") =>
                \/ /\ response # None
                   /\ response_src.correlation_id = armed[t]
                   /\ result'[t] = process_response(response)
                \/ /\ response = None
                   /\ result'[t] = Raise(AMQPConnectionError)]_vars
    /\ [](\A t \in Threads :
            (pc[t] = "finally" /\ result[t].kind = "return") =>
                (response # None /\ response_src.correlation_id = armed[t]))
    /\ \A t \in Threads :
          (pc[t] = "wait" /\ MatchingReplyPending(t))
              ~> (pc[t] = "idle" /\ result[t] # NoResult)

\* the call waited while a delivery without its token was consumed, and went on
\* to its result when the reply with its token came
C21_Witness ==
    \E t \in Threads :
        /\ pc[t] = "finally" /\ armed[t] = 1
        /\ dropped = {ForeignToken}
        /\ response # None /\ response_src.correlation_id = 1
        /\ result[t].kind = "return"

\* C22: every push_message arms a token that no earlier push of the instance
\* was given, and arms it before it has declared or published anything; the
\* call publishes one request, which carries that token as correlation_id and
\* the instance's exclusive reply queue as reply_to; no other step of the call
\* publishes.
C22_FreshTokenOneRequest ==
    /\ [][\A t \in Threads :
            (armed'[t] # armed[t] /\ armed'[t] # NoToken) =>
                /\ armed'[t] \notin 0..uuid
                /\ correlation_id' = armed'[t]
                /\ ops[t] = 0 /\ ops'[t] = 0
                /\ queue' = queue]_vars
    /\ [][\A t \in Threads :
            pc'[t] # pc[t] =>
                IF pc[t] = "publish" /\ pc'[t] = "wait"
                    THEN /\ armed[t] # NoToken
                         /\ queue' = Append(queue,
                                [body |-> serialize(msg[t]),
                                 props |-> [reply_to |-> ReplyQueue,
                                            correlation_id |-> armed[t],
                                            cause |-> NoResult]])
                    ELSE queue' = queue]_vars
    /\ [](\A t \in Threads :
            Cardinality({i \in DOMAIN queue :
                            /\ armed[t] # NoToken
                            /\ queue[i].props.correlation_id = armed[t]})
                <= (IF pc[t] \in {"wait", "finally"} THEN 1 ELSE 0))

\* the second call waits with its request, carrying the second token, queued
\* behind the request of the first call
C22_Witness ==
    \E t \in Threads :
        /\ pc[t] = "wait" /\ armed[t] = 2 /\ ops[t] = 2
        /\ Len(queue) = 2
        /\ queue[1].props.correlation_id = 1
        /\ queue[2].props.correlation_id = 2
        /\ queue[2].props.reply_to = ReplyQueue

-----------------------------------------------------------------------------
(* Properties of the backend registry *)

\* The last call handed the registry a configuration map without 'protocol':
\* as the keywords of instantiate, as the argument of from_config, or as a
\* tagged mapping of a YAML document.
NoProtocolGiven ==
    /\ fcall.op \in {"instantiate_kw", "from_config", "yaml"}
    /\ fcall.cfg.type = "dict"
    /\ ~contains(fcall.cfg, "protocol")

InstantiatedRegistered ==
    /\ fcall.op = "instantiate"
    /\ fcall.cfg.protocol # None
    /\ has_backend(backends, fcall.role, fcall.cfg.protocol)

\* C24: for a protocol registered for the role, instantiate constructs one
\* object, of exactly the registered type, and runs that type's constructor on
\* it with the arguments given: the call returns that instance, holding what
\* the constructor made of the arguments, or raises what the constructor
\* raised.
C24_InstanceOfRegisteredType ==
    InstantiatedRegistered =>
        LET T == backends[fcall.role].items[fcall.cfg.protocol]
            args == fcall.cfg.args
            kwargs == fcall.cfg.kwargs
        IN  /\ fcall.constructed = <<T>>
            /\ fcall.outcome = init(T, args, kwargs)
            /\ fcall.outcome.kind = "return" =>
                  /\ fcall.outcome.value.cls = T
                  /\ T = TestFactoryImp =>
                        fcall.outcome.value.attrs =
                            IF args # <<>> THEN args[1]
                            ELSE IF contains(kwargs, "a") THEN kwargs.items["a"]
                            ELSE PyInt(9)
                  /\ T = MQAsynchronProducer => fcall.outcome.value.attrs = kwargs
            /\ fcall.outcome.kind = "raise" =>
                  fcall.outcome.exc \in {TypeError, ConfigurationError("host")}

\* TestFactory.instantiate('test', 1) with TestFactoryImp registered as 'test':
\* a TestFactoryImp whose x is 1
C24_Witness ==
    /\ InstantiatedRegistered
    /\ fcall.role = TestFactory /\ fcall.cfg.protocol = Str("", "test")
    /\ fcall.cfg.args = <<PyInt(1)>>
    /\ fcall.outcome = Ok(Object(TestFactoryImp, PyInt(1)))

\* The call recorded in c was instantiate, directly or with a map as its
\* keywords, with a protocol string that has no type registered for the role
\* in the registry bk.
InstantiatedUnregistered(c, bk) ==
    /\ c.op \in {"instantiate", "instantiate_kw"}
    /\ LET protocol == IF c.op = "instantiate" THEN c.cfg.protocol
                       ELSE c.cfg.items["protocol"]
       IN  protocol \notin {None, NoKey} /\ ~has_backend(bk, c.role, protocol)

\* C25: instantiate with a protocol that is not registered for the role, and
\* instantiate on a role that has no backend registered at all, raise
\* ConfigurationError; no object is constructed and the registry is as it was.
C25_UnknownProtocolIsConfigurationError ==
    /\ [](InstantiatedUnregistered(fcall, backends) =>
            /\ fcall.outcome =
                  IF hasattr_backends(backends, fcall.role)
                      THEN Raise(ConfigurationError("protocol"))
                      ELSE Raise(ConfigurationError("backends"))
            /\ fcall.constructed = <<>>)
    /\ [][InstantiatedUnregistered(fcall', backends) => backends' = backends]_vars

\* instantiate('nonexistent') on a role with a backend registered under
\* another name
C25_Witness ==
    /\ InstantiatedUnregistered(fcall, backends)
    /\ fcall.op = "instantiate" /\ fcall.role = TestFactory
    /\ has_backend(backends, TestFactory, Str("", "test"))
    /\ fcall.outcome = Raise(ConfigurationError("protocol"))

C27_FromConfigForms ==
    fcall.op = "from_config" =>
        LET cfg == fcall.cfg
            ended == Ended(fcall.outcome, fcall.constructed)
        IN  /\ cfg.type = "str" =>
                  ended = instantiate(backends, fcall.role, cfg, <<>>, EmptyDict)
            /\ (cfg.type = "dict" /\ contains(cfg, "protocol")) =>
                  ended = instantiate(backends, fcall.role, cfg.items["protocol"],
                              IF contains(cfg, "args") THEN cfg.items["args"].items ELSE <<>>,
                              IF contains(cfg, "kwargs") THEN cfg.items["kwargs"] ELSE EmptyDict)
            /\ cfg.type \notin {"str", "dict"} =>
                  /\ fcall.outcome = Raise(ValueError("Invalid backend configuration"))
                  /\ fcall.constructed = <<>>
            /\ (cfg = Str("", "test") /\ entry(backends, fcall.role, cfg) = TestFactoryImp) =>
                  fcall.outcome = Ok(Object(TestFactoryImp, PyInt(9)))

\* from_config(dict(protocol='test', args=[1])) has given a TestFactoryImp
\* with x = 1
C27_Witness ==
    /\ fcall.op = "from_config" /\ fcall.cfg.type = "dict"
    /\ fcall.cfg.items["protocol"] = Str("", "test")
    /\ fcall.cfg.items["args"] = Tuple(<<PyInt(1)>>)
    /\ ~contains(fcall.cfg, "kwargs")
    /\ fcall.outcome = Ok(Object(TestFactoryImp, PyInt(1)))

\* C28: a configuration map given to from_config, or to instantiate as its
\* keywords, has the same keys and values after the call as before it,
\* 'protocol' included, however the call ends.
C28_ConfigMapUnchanged ==
    (fcall.op \in {"from_config", "instantiate_kw"} /\ fcall.cfg.type = "dict") =>
        /\ fcall.cfg_after = fcall.cfg
        /\ keys(fcall.cfg_after) = keys(fcall.cfg)
        /\ contains(fcall.cfg, "protocol") => contains(fcall.cfg_after, "protocol")

\* from_config has built a backend from a map with protocol and kwargs, and
\* the map still has both
C28_Witness ==
    /\ fcall.op = "from_config" /\ fcall.cfg.type = "dict"
    /\ fcall.outcome = Ok(Object(TestFactoryImp, PyInt(2)))
    /\ keys(fcall.cfg_after) = {"protocol", "kwargs"}
    /\ fcall.cfg_after.items["protocol"] = Str("", "test")
    /\ fcall.cfg_after.items["kwargs"] = setitem(EmptyDict, "a", PyInt(2))

-----------------------------------------------------------------------------
(* Properties of the handler's scope and of the fire-and-forget push *)

\* C29 (as stated): the instance's connection and channel are open only while
\* its with block is entered: not before, and not after the block is left.
C29_SessionOnlyInScope ==
    session.scope # "inside" =>
        (session.connection # "open" /\ session.channel # "open")

\* The data of the k-th push is in the queue / has been delivered to the consumer.
Queued(k) == \E i \in DOMAIN queue : queue[i].body = serialize(Msg(k))
Delivered(k) == \E i \in DOMAIN inbox : inbox[i].body = serialize(Msg(k))

\* C30: the fire-and-forget push_message declares the queue, then publishes one
\* message, then returns None, and no other step of it publishes; it ends with
\* None or with an exception of its own side (no routing key, transport), and
\* each of its steps can be taken whether or not a consumer runs; a published
\* message stays in the queue until it is delivered, and is delivered once a
\* consumer runs, also when that consumer was started after the push.
C30_FireAndForget ==
    /\ [][\A t \in Threads :
            pc'[t] # pc[t] =>
                CASE pc[t] = "declare" /\ pc'[t] = "publish" ->
                         ops[t] = 0 /\ ops'[t] = 1 /\ queue' = queue
                  [] pc[t] = "publish" /\ pc'[t] # "idle" ->
                         /\ pc'[t] = "return"
                         /\ ops[t] = 1 /\ ops'[t] = 2
                         /\ Len(queue') = Len(queue) + 1
                         /\ SubSeq(queue', 1, Len(queue)) = queue
                         /\ queue'[Len(queue')].body = serialize(msg[t].data)
                         /\ queue'[Len(queue')].props.reply_to = None
                  [] pc[t] = "return" ->
                         /\ pc'[t] = "idle" /\ result'[t] = Ok(None)
                         /\ ops[t] = 2 /\ queue' = queue
                  [] OTHER -> queue' = queue]_vars
    /\ [](\A t \in Threads :
            /\ pc[t] # "idle" => ENABLED async_push_message(t)
            /\ (pc[t] = "idle" /\ result[t] # NoResult) =>
                  \/ result[t] = Ok(None)
                  \/ result[t] = Raise(AMQPConnectionError)
                  \/ result[t].kind = "raise" /\ result[t].exc.type = "ValueError")
    /\ [][\A i \in DOMAIN queue :
            queue[i] \in Range(queue') \/ queue[i] \in Range(inbox')]_vars
    /\ \A k \in 1..MaxCalls :
          (Queued(k) /\ consumer = "running") ~> Delivered(k)

\* a push that returned None while no consumer was running, and whose message
\* the consumer started afterwards has got
C30_Witness ==
    \E t \in Threads :
        /\ pc[t] = "idle" /\ result[t] = Ok(None)
        /\ consumer = "running"
        /\ inbox # <<>>
        /\ inbox[1].pushed_while = "not started"
        /\ inbox[1].body = serialize(Msg(1))

\* C31: the exchange and the routing key of a publish are the per-call value
\* when one is given (also an empty one), else the instance's default when it
\* has one, else the hard default: the empty exchange name, and for the
\* routing key, which has none, the ValueError that says it is mandatory.
C31_ResolutionOrder ==
    probe.fn \in {"effective_exchange", "effective_routing_key"} =>
        LET hard == IF probe.fn = "effective_exchange"
                    THEN Ok(Str("", ""))
                    ELSE Raise(ValueError(Str("", "publish_message: Routing key is mandatory"))) IN
        /\ probe.override # None => probe.outcome = Ok(probe.override)
        /\ probe.override = None /\ probe.default # None => probe.outcome = Ok(probe.default)
        /\ probe.override = None /\ probe.default = None => probe.outcome = hard

\* an empty per-call exchange has won over the instance's named default
C31_Witness ==
    /\ probe.fn = "effective_exchange"
    /\ probe.override = Str("", "")
    /\ probe.default = Str("", "occo")
    /\ probe.outcome = Ok(Str("", ""))

C33_Escalation ==
    proc.pc = "returned" =>
        /\ Len(proc.sent) >= 1
        /\ proc.sent = SubSeq(SIGLIST, 1, Len(proc.sent))
        /\ \A i \in 1..2 :
              (Len(proc.sent) >= i /\ proc.alive_after[i]) <=> Len(proc.sent) >= i + 1

\* C34: a consumer constructed without cancel_event has, when start_consuming
\* returns, processed one batch of data events: one pump cycle, no more and
\* no fewer.
C34_OneBatchThenYield ==
    cancel_event = "absent" /\ sc_result = Ok(None) => pumps = 1

\* the exception of a push_message that finds no routing key
NoRoutingKey == Raise(ValueError(Str("", "publish_message: Routing key is mandatory")))

\* C35: with no routing key in the call and none in the instance, push_message
\* of either producer ends with ValueError, raised before any queue is declared
\* and before anything is published; the RPC producer's call then goes through
\* its finally block, after which the token is unset, the reply slot is empty
\* and the mutex is free, and the caller gets the ValueError.
C35_NoRoutingKeyRaisesFirst ==
    /\ [][(pc[RpcCaller] = "declare" /\ pc'[RpcCaller] # "declare"
              /\ default_routing_key = None) =>
            /\ result'[RpcCaller] = NoRoutingKey
            /\ pc'[RpcCaller] = "finally"
            /\ ops[RpcCaller] = 0 /\ ops'[RpcCaller] = 0
            /\ queue' = queue]_vars
    /\ [][(pc[RpcCaller] = "finally" /\ pc'[RpcCaller] # "finally"
              /\ result[RpcCaller] = NoRoutingKey) =>
            /\ pc'[RpcCaller] = "idle"
            /\ result'[RpcCaller] = NoRoutingKey
            /\ correlation_id' = NoToken
            /\ response' = None
            /\ lock' = NoThread
            /\ queue' = queue]_vars
    /\ [][(pc[AsyncCaller] = "declare" /\ pc'[AsyncCaller] # "declare"
              /\ msg[AsyncCaller].routing_key = None /\ default_routing_key = None) =>
            /\ result'[AsyncCaller] = NoRoutingKey
            /\ pc'[AsyncCaller] = "idle"
            /\ ops[AsyncCaller] = 0 /\ ops'[AsyncCaller] = 0
            /\ queue' = queue]_vars

\* both producers have raised the ValueError, nothing was declared or published,
\* and the RPC producer is idle
C35_Witness ==
    /\ default_routing_key = None
    /\ pc[RpcCaller] = "idle" /\ result[RpcCaller] = NoRoutingKey
    /\ pc[AsyncCaller] = "idle" /\ result[AsyncCaller] = NoRoutingKey
    /\ queue = <<>>
    /\ correlation_id = NoToken /\ response = None /\ lock = NoThread
    /\ uuid = 1

\* the configuration lacks one of the connection parameters / the queue name
LacksConnectionKey(config) == \E i \in DOMAIN ConnectionKeys : ~contains(config, ConnectionKeys[i])
LacksQueue(config) == ~contains(config, "queue")

\* C36: constructing a producer or a consumer (given its processor) from a
\* configuration without host, vhost, user or password, and constructing a
\* consumer from one without queue, ends with ConfigurationError: no instance
\* is returned, and no connection has been opened.
C36_BadConfigIsConfigurationError ==
    (/\ probe.fn = "construct"
     /\ probe.cls = "MQEventDrivenConsumer" => probe.processor = "given"
     /\ \/ LacksConnectionKey(probe.config)
        \/ probe.cls = "MQEventDrivenConsumer" /\ LacksQueue(probe.config))
    => /\ probe.built.outcome.kind = "raise"
       /\ probe.built.outcome.exc.type = "ConfigurationError"
       /\ probe.built.connection = "none"

\* a consumer with every connection parameter and no queue name was refused
C36_Witness ==
    /\ probe.fn = "construct"
    /\ probe.cls = "MQEventDrivenConsumer"
    /\ probe.processor = "given"
    /\ ~LacksConnectionKey(probe.config)
    /\ LacksQueue(probe.config)
    /\ probe.built = Failed(ConfigurationError("queue"), "none")

\* C37: when the processor returns ExceptionResponse(code, e), the RPC call
\* that has received the reply ends by raising e itself, whatever the status
\* code is: no CommunicationError is made out of the code, and no value is
\* returned.
C37_ExceptionResponseRaisesItsException ==
    (Settled(RpcCaller) /\ processor.do = "ExceptionResponse") =>
        /\ deserialize(response) = Ok(ExceptionResponse(processor.code, processor.exc))
        /\ result[RpcCaller] = Raise(processor.exc)

\* ExceptionResponse(403, ValueError()) has ended the call with ValueError
C37_Witness ==
    /\ Settled(RpcCaller)
    /\ processor = [do |-> "ExceptionResponse", code |-> 403, exc |-> ValueError(None)]
    /\ result[RpcCaller] = Raise(ValueError(None))

\* C38: a registration for one role changes nothing for any other role: for
\* every other role B, related by inheritance or not, and every discriminator,
\* the class instantiate(B, ...) constructs (or its failure) and the answer of
\* B.has_backend are the same after the registration as before it.
C38_RegisterLeavesOtherRolesAlone ==
    [][backends' # backends =>
         \A B \in RelatedRoles \ {fcall'.role}, p \in Protocols :
            /\ instantiate(backends', B, p, <<>>, EmptyDict)
                   = instantiate(backends, B, p, <<>>, EmptyDict)
            /\ has_backend(backends', B, p) = has_backend(backends, B, p)]_vars

\* The last call was instantiate(protocol, *args, **kwargs) on a role and it
\* returned an object.
InstantiateReturned == fcall.op = "instantiate" /\ fcall.outcome.kind = "return"

\* the classes registered as backends of the role
RegisteredTypes(role) == {entry(backends, role, id_) : id_ \in ProtocolIds} \ {NoKey}

====
